---- MODULE Spec2Model ----
(***************************************************************************)
(* Encrypted file vault: upload / delete ledger, access control, sharing   *)
(* and step-up authentication of Danil-Ispanyuk/file-storage-app.          *)
(*                                                                         *)
(* The relational store (Prisma), the blob store (S3) and the clock are    *)
(* the state.  A request handler whose awaits separate writes to different *)
(* stores (upload, file delete) is one action per await; the other         *)
(* handlers are one action each.                                           *)
(***************************************************************************)
EXTENDS Integers, Sequences, FiniteSets, TLC

----------------------------------------------------------------------------
(* Bounds of the model                                                     *)

MaxFiles == 2        \* uploads admitted past the quota check
MaxShares == 2       \* FileShare rows ever created
MaxSessions == 1     \* StepUpSession rows ever created
MaxInFlight == 2     \* upload / delete requests in flight at once
MaxTime == 30        \* last clock value (minutes)
TickMinutes == 15    \* clock granularity (minutes)
MaxSecrets == 2      \* TOTP seeds ever generated by setup

----------------------------------------------------------------------------
(* Program constants                                                       *)

MiB == 1048576
DEFAULT_STORAGE_QUOTA == 104857600
ADMIN_STORAGE_QUOTA == 1073741824
MAX_FILE_SIZE == 100 * 1024 * 1024
MAX_NAME_LENGTH == 255
STEP_UP_EXPIRY_MINUTES == 15
BACKUP_CODES_COUNT == 10

Role == {"ADMIN", "MANAGER", "USER", "GUEST"}
SharePermission == {"READ", "READ_WRITE"}

----------------------------------------------------------------------------
(* Input universes                                                         *)

Users == {"alice", "bob", "root"}
NoUser == "null"               \* a null user reference
None == << >>                  \* SQL NULL / JS null / an absent request field
Some(x) == <<x>>               \* a present nullable value
\* Ids and tokens are drawn fresh from counters that start at 1, so 0 is an
\* id (a token) that no row ever has.

SizeInputs == {40 * MiB, 70 * MiB, MAX_FILE_SIZE + 1}
MimeInputs == {<<"text", "plain">>, <<"image", "png">>,
               <<"application", "x-executable">>}
NameInputs == {<<"a", ".", "t">>, <<".", ".", "/">>}
\* file contents: the empty file, and files of one and two bytes
DataInputs == {<< >>, <<[kind |-> "plain", v |-> 0]>>,
               <<[kind |-> "plain", v |-> 1], [kind |-> "plain", v |-> 0]>>}
ExpiryInputs == {None, Some(15)}
RoleInputs == {"ADMIN", "GUEST", "bogus"}

\* A submitted 2FA code: its number of digits and what was typed.  The code
\* an authenticator seeded with secret S shows is written S itself.
CodeInputs == {[len |-> 6, val |-> "S1"], [len |-> 6, val |-> "S2"],
               [len |-> 8, val |-> "bk-1"], [len |-> 4, val |-> "S1"]}

----------------------------------------------------------------------------
VARIABLES
  user,           \* User rows: id -> [role, storageQuota, usedStorage]
  secondFactor,   \* SecondFactor rows: userId -> [enabled, secret, backupCodes]
  file,           \* File rows: id -> [userId, size, path]
  blobs,          \* keys present in the blob store
  body,           \* the blob store: key -> the bytes stored under it
  MASTER_KEY,     \* the environment's master key, as getMasterKey() reads it
  fileShare,      \* FileShare rows
  stepUpSession,  \* StepUpSession rows
  now,            \* the clock, in minutes
  inflight,       \* upload / delete requests between two awaits
  nextUpload,     \* next fresh storage key / file id
  nextShare,      \* next fresh share id / share token
  nextSession,    \* next fresh step-up session id / token
  nextSecret,     \* next fresh TOTP seed
  issued,         \* history: every StepUpSession row ever created
  charged,        \* history: per user, the sum of the deltas applied
  ledgerFault,    \* history: an updateUsedStorage call has thrown
  uploaded,       \* history: file id -> what its upload encrypted and wrote
  proved,         \* history: <<user, seed>> a setup verification accepted
  accepted,       \* history: <<user, backup code>> of each acceptance, in order
  last            \* the most recent request and its response

vars == <<user, secondFactor, file, blobs, body, MASTER_KEY, fileShare,
          stepUpSession, now, inflight, nextUpload, nextShare, nextSession,
          nextSecret, issued, charged, ledgerFault, uploaded, proved, accepted,
          last>>

db == <<user, secondFactor, file, blobs, fileShare, stepUpSession>>

content == <<body, MASTER_KEY, uploaded>>
enrol == <<nextSecret, proved, accepted>>

Slots == 1..MaxInFlight
NoCheck == [success |-> FALSE, available |-> 0, used |-> 0, quota |-> 0,
            required |-> 0]
Idle == [kind |-> "idle", user |-> NoUser, fileId |-> 0, path |-> 0,
         size |-> 0, quotaCheck |-> NoCheck, pc |-> "idle",
         encryptedData |-> << >>, hash |-> << >>, encryptedFileKey |-> << >>,
         grant |-> None]

\* The request just handled (handler, requester, file id, and the token
\* presented: a step-up token, or the share token of the public endpoint) and
\* the response it got (HTTP status, error message, and what else the body or
\* the headers say).
Response(op, u, f, tok, status, error, detail) ==
  [op |-> op, user |-> u, file |-> f, token |-> tok, status |-> status,
   error |-> error, detail |-> detail]

FreeSlot == CHOOSE k \in Slots : inflight[k] = Idle /\
                                 \A j \in Slots : inflight[j] = Idle => k <= j

Finish(k) == inflight' = [inflight EXCEPT ![k] = Idle]

----------------------------------------------------------------------------
(* Second factor: lib/totp.ts, lib/backupCodes.ts, lib/totpService.ts      *)

isValidTotpFormat(code) == code.len = 6

\* Fault: any six digits pass.
verifyTotpTokenAny(code, secret) == TRUE

verifyTotpToken(code, secret) == code.val = secret

\* The seeds generateTotpSecret draws, in the order it draws them.
TotpSecrets == <<"T1", "T2", "T3", "T4">>

generateTotpSecret(n) == TotpSecrets[n]

\* The stored secret is the ciphertext of the seed.
encryptSecret(plaintext) == [enc |-> plaintext]

decryptSecret(stored) == stored.enc

\* The ten distinct 8-digit codes generateBackupCodes draws.
BackupCodeDraws ==
  <<"bk-a", "bk-b", "bk-c", "bk-d", "bk-e", "bk-f", "bk-g", "bk-h", "bk-i",
    "bk-j">>

\* Fault: the used code stays in the list.
RemoveNothing(seq, i) == seq

\* Fault: no code is generated.
generateNoBackupCodes(count) == << >>

generateBackupCodes(count) == [i \in 1..count |-> BackupCodeDraws[i]]

\* bcrypt.hash of each code under a salt of its own.
hashBackupCodes(codes) ==
  [i \in 1..Len(codes) |-> [code |-> codes[i], salt |-> i]]

\* bcrypt.compare of a code against one salted hash.
bcryptCompare(code, hashedCode) == hashedCode.code = code.val

verifyBackupCode(code, hashedCodes) ==
  \E i \in 1..Len(hashedCodes) : bcryptCompare(code, hashedCodes[i])

RemoveAt(seq, i) ==
  [j \in 1..(Len(seq) - 1) |-> IF j < i THEN seq[j] ELSE seq[j + 1]]

\* The result and the backup codes the handler leaves stored.
verifyTotpForUser(userId, code) ==
  IF \/ userId \notin DOMAIN secondFactor
     \/ ~secondFactor[userId].enabled
     \/ secondFactor[userId].secret = None
  THEN [valid |-> FALSE, error |-> "2FA is not enabled for this user.",
        backupCodes |-> << >>]
  ELSE
    LET sf == secondFactor[userId]
        isBackupCodeFormat == code.len = 8
        isTotpFormat == isValidTotpFormat(code)
        matches == {i \in 1..Len(sf.backupCodes) :
                      verifyBackupCode(code, <<sf.backupCodes[i]>>)}
        usedCodeIndex == IF matches = {} THEN 0
                         ELSE CHOOSE i \in matches : \A j \in matches : i <= j
    IN
    IF ~isBackupCodeFormat /\ ~isTotpFormat
    THEN [valid |-> FALSE, error |-> "Invalid code format.",
          backupCodes |-> sf.backupCodes]
    ELSE IF /\ isBackupCodeFormat
            /\ Len(sf.backupCodes) > 0
            /\ verifyBackupCode(code, sf.backupCodes)
    THEN [valid |-> TRUE, error |-> "",
          backupCodes |-> IF usedCodeIndex >= 1
                          THEN RemoveAt(sf.backupCodes, usedCodeIndex)
                          ELSE sf.backupCodes]
    ELSE IF isTotpFormat
    THEN IF verifyTotpToken(code, decryptSecret(sf.secret[1]))
         THEN [valid |-> TRUE, error |-> "", backupCodes |-> sf.backupCodes]
         ELSE [valid |-> FALSE, error |-> "Invalid 2FA code.",
               backupCodes |-> sf.backupCodes]
    ELSE [valid |-> FALSE, error |-> "Invalid 2FA code.",
          backupCodes |-> sf.backupCodes]

----------------------------------------------------------------------------
(* Step-up authentication: lib/stepUpAuth.ts                               *)

\* Fault: the session's owner is not compared with the caller.
verifyStepUpTokenAnyOwner(userId, token) ==
  LET found == {s \in stepUpSession : Some(s.token) = token} IN
  IF token = None \/ found = {}
  THEN [valid |-> FALSE, sessions |-> stepUpSession]
  ELSE
    LET session == CHOOSE s \in found : TRUE IN
    IF session.expiresAt < now
    THEN [valid |-> FALSE,
          sessions |-> {s \in stepUpSession : s.id # session.id}]
    ELSE [valid |-> TRUE, sessions |-> stepUpSession]

\* Fault: the session is deleted by the check that accepts it.
verifyStepUpTokenOnce(userId, token) ==
  LET found == {s \in stepUpSession : Some(s.token) = token} IN
  IF token = None \/ found = {}
  THEN [valid |-> FALSE, sessions |-> stepUpSession]
  ELSE
    LET session == CHOOSE s \in found : TRUE IN
    IF session.userId # userId
    THEN [valid |-> FALSE, sessions |-> stepUpSession]
    ELSE [valid |-> ~(session.expiresAt < now),
          sessions |-> {s \in stepUpSession : s.id # session.id}]

\* The verdict and the StepUpSession table the call leaves behind.
verifyStepUpToken(userId, token) ==
  LET found == {s \in stepUpSession : Some(s.token) = token} IN
  IF token = None
  THEN [valid |-> FALSE, sessions |-> stepUpSession]
  ELSE IF found = {}
  THEN [valid |-> FALSE, sessions |-> stepUpSession]
  ELSE
    LET session == CHOOSE s \in found : TRUE IN
    IF session.userId # userId
    THEN [valid |-> FALSE, sessions |-> stepUpSession]
    ELSE IF session.expiresAt < now
    THEN [valid |-> FALSE,
          sessions |-> {s \in stepUpSession : s.id # session.id}]
    ELSE [valid |-> TRUE, sessions |-> stepUpSession]

\* Fault: a request that carries no token is let through.
requireStepUpOptional(userId, method, headerToken, bodyToken) ==
  LET token == IF headerToken # None THEN headerToken
               ELSE IF method = "POST" THEN bodyToken ELSE None
      check == verifyStepUpToken(userId, token)
  IN
  IF token = None
  THEN [valid |-> TRUE, error |-> "", sessions |-> stepUpSession]
  ELSE IF ~check.valid
  THEN [valid |-> FALSE, error |-> "Invalid or expired step-up token.",
        sessions |-> check.sessions]
  ELSE [valid |-> TRUE, error |-> "", sessions |-> check.sessions]

\* The token is read from the X-Step-Up-Token header, and from the body only
\* when the request is a POST.  Messages are cut to their first sentence.
requireStepUp(userId, method, headerToken, bodyToken) ==
  LET token == IF headerToken # None THEN headerToken
               ELSE IF method = "POST" THEN bodyToken ELSE None
      check == verifyStepUpToken(userId, token)
  IN
  IF token = None
  THEN [valid |-> FALSE, error |-> "Step-up authentication required.",
        sessions |-> stepUpSession]
  ELSE IF ~check.valid
  THEN [valid |-> FALSE, error |-> "Invalid or expired step-up token.",
        sessions |-> check.sessions]
  ELSE [valid |-> TRUE, error |-> "", sessions |-> check.sessions]

----------------------------------------------------------------------------
(* Access control and sharing: lib/fileAccess.ts, lib/fileSharing.ts       *)

\* expiresAt IS NULL OR expiresAt > now
ActiveShare(s) == s.expiresAt = None \/ s.expiresAt[1] > now

\* Fault: the expiry of the share is not looked at.
checkSharePermissionAnyExpiry(userId, fileId) ==
  LET shares == {s \in fileShare : s.fileId = fileId /\ s.sharedWith = userId}
  IN
  IF userId = NoUser \/ shares = {} THEN None
  ELSE Some((CHOOSE s \in shares : \A t \in shares : s.id <= t.id).permission)

checkSharePermission(userId, fileId) ==
  LET shares == {s \in fileShare : /\ s.fileId = fileId
                                   /\ s.sharedWith = userId
                                   /\ ActiveShare(s)}
  IN
  IF userId = NoUser THEN None
  ELSE IF shares = {} THEN None
  ELSE Some((CHOOSE s \in shares : \A t \in shares : s.id <= t.id).permission)

canViewFile(userId, fileId) ==
  IF fileId \notin DOMAIN file THEN FALSE
  ELSE IF file[fileId].userId = userId THEN TRUE
  ELSE checkSharePermission(userId, fileId) # None

\* Fault: whoever may view may delete.
canDeleteFileShared(userId, fileId) == canViewFile(userId, fileId)

canDeleteFile(userId, fileId) ==
  IF fileId \notin DOMAIN file THEN FALSE
  ELSE file[fileId].userId = userId

\* Fault: the expiry of the share is not looked at.
validateShareTokenAnyExpiry(token) ==
  LET found == {s \in fileShare : s.token = Some(token)} IN
  IF found = {} THEN None
  ELSE
    LET share == CHOOSE s \in found : TRUE IN
    Some([fileId |-> share.fileId, sharedBy |-> share.sharedBy,
          permission |-> share.permission])

\* None, or the share's fileId, sharedBy and permission.
validateShareToken(token) ==
  LET found == {s \in fileShare : s.token = Some(token)} IN
  IF found = {} THEN None
  ELSE
    LET share == CHOOSE s \in found : TRUE IN
    IF share.expiresAt # None /\ share.expiresAt[1] < now THEN None
    ELSE Some([fileId |-> share.fileId, sharedBy |-> share.sharedBy,
               permission |-> share.permission])

----------------------------------------------------------------------------
(* File validation: lib/fileValidation.ts                                  *)

Includes(name, c) == \E i \in 1..Len(name) : name[i] = c
IncludesDotDot(name) ==
  \E i \in 1..(Len(name) - 1) : name[i] = "." /\ name[i + 1] = "."

AllowedExactMime ==
  {<<"application", "pdf">>, <<"application", "msword">>,
   <<"application", "docx">>, <<"application", "xlsx">>,
   <<"application", "pptx">>, <<"application", "json">>}

validateFileSize(size) ==
  IF size > MAX_FILE_SIZE THEN "File size exceeds maximum allowed size"
  ELSE ""

validateMimeType(mimeType) ==
  IF \/ mimeType[1] = "image"
     \/ mimeType[1] = "text"
     \/ mimeType \in AllowedExactMime
  THEN "" ELSE "File type is not allowed"

validateFileName(fileName) ==
  IF Len(fileName) = 0 \/ \A i \in 1..Len(fileName) : fileName[i] = " "
  THEN "File name cannot be empty"
  ELSE IF \/ IncludesDotDot(fileName)
          \/ Includes(fileName, "/")
          \/ Includes(fileName, "\\")
  THEN "Invalid file name"
  ELSE IF Len(fileName) > MAX_NAME_LENGTH
  THEN "File name is too long (max 255 characters)"
  ELSE ""

\* Fault: the name is checked first, the size last.
validateFileNameFirst(size, mimeType, fileName) ==
  IF validateFileName(fileName) # "" THEN validateFileName(fileName)
  ELSE IF validateMimeType(mimeType) # "" THEN validateMimeType(mimeType)
  ELSE validateFileSize(size)

\* The first failing check's error, "" when the file is valid.
validateFile(size, mimeType, fileName) ==
  IF validateFileSize(size) # "" THEN validateFileSize(size)
  ELSE IF validateMimeType(mimeType) # "" THEN validateMimeType(mimeType)
  ELSE validateFileName(fileName)

----------------------------------------------------------------------------
(* Compression: lib/fileCompression.ts                                     *)

SUPPORTED_IMAGE_FORMATS == {<<"image", "jpeg">>, <<"image", "jpg">>,
                            <<"image", "png">>, <<"image", "webp">>}
SUPPORTED_TEXT_FORMATS == {<<"text", "plain">>, <<"text", "html">>,
                           <<"text", "css">>, <<"application", "json">>}
SUPPORTED_DOCUMENT_FORMATS == {<<"application", "msword">>,
                               <<"application", "docx">>,
                               <<"application", "pdf">>}

isCompressible(mimeType) ==
  \/ mimeType \in SUPPORTED_IMAGE_FORMATS
  \/ mimeType \in SUPPORTED_TEXT_FORMATS
  \/ mimeType \in SUPPORTED_DOCUMENT_FORMATS

\* What compressFile can return for a buffer of this size and type: the
\* buffer as it was (already compressed, or too little gained), a buffer of
\* half the size, or, for an image, an exception from the image library.
compressFile(size, mimeType) ==
  IF ~isCompressible(mimeType)
  THEN {[threw |-> FALSE, size |-> size, mimeType |-> mimeType]}
  ELSE IF mimeType \in SUPPORTED_IMAGE_FORMATS
  THEN {[threw |-> FALSE, size |-> size, mimeType |-> mimeType],
        [threw |-> FALSE, size |-> size \div 2,
         mimeType |-> <<"image", "jpeg">>],
        [threw |-> TRUE, size |-> size, mimeType |-> mimeType]}
  ELSE {[threw |-> FALSE, size |-> size, mimeType |-> mimeType],
        [threw |-> FALSE, size |-> size \div 2, mimeType |-> mimeType]}

\* The buffer compressFile returns when it did compress: other bytes, from
\* which the received ones are not recovered on the way back.
Compressed(data) == <<[kind |-> "compressed", of |-> data]>>

----------------------------------------------------------------------------
(* Encryption and hashing: lib/fileEncryption.ts, calculateFileHash        *)

\* A buffer is a sequence of bytes, and a byte is a record: a byte of file
\* content, a byte drawn by randomBytes, a byte of AES-GCM output.  A key
\* is the exception: nothing takes its KEY_LENGTH bytes apart, and it is
\* kept as a buffer of one element.  AES-GCM and SHA-256 are the ideal
\* ones: a byte of ciphertext names its position and the byte it hides, the
\* tag names the key, the nonce and the whole ciphertext, and the digest
\* names the buffer.

IV_LENGTH == 12

PlainByte(v) == [kind |-> "plain", v |-> v]

\* randomBytes(n): n bytes of a draw that no other draw repeats.
randomBytes(n, draw) == [i \in 1..n |-> [kind |-> "random", v |-> draw]]

\* randomBytes(KEY_LENGTH)
generateFileKey(draw) == <<[kind |-> "key", v |-> draw]>>

\* cipher.update(buffer) followed by cipher.final()
gcmUpdateFinal(key, iv, buffer) ==
  [i \in 1..Len(buffer) |-> [kind |-> "cipher", at |-> i, of |-> buffer[i]]]

\* cipher.getAuthTag(): 16 bytes.  What the tag depends on is written in its
\* first byte; the other fifteen are the rest of the same tag.
gcmAuthTag(key, iv, encrypted) ==
  [i \in 1..16 |-> [kind |-> "tag", at |-> i,
                    mac |-> IF i = 1 THEN <<key, iv, encrypted>> ELSE << >>]]

\* Fault: the tag is not verified.
gcmDecipherUnauthenticated(key, iv, authTag, encrypted) ==
  [threw |-> FALSE,
   buffer |-> [i \in 1..Len(encrypted) |->
                 IF encrypted[i].kind = "cipher" THEN encrypted[i].of
                 ELSE encrypted[i]]]

\* createDecipheriv, setAuthTag, update, final: the plaintext, or an
\* exception when the tag does not authenticate the ciphertext under this
\* key and nonce.
gcmDecipher(key, iv, authTag, encrypted) ==
  IF authTag = gcmAuthTag(key, iv, encrypted)
  THEN [threw |-> FALSE,
        buffer |-> [i \in 1..Len(encrypted) |-> encrypted[i].of]]
  ELSE [threw |-> TRUE, buffer |-> << >>]

\* buffer.slice(start, end): 0-based, end excluded, clamped to the length.
Slice(buffer, start, end) ==
  SubSeq(buffer, start + 1, IF end < Len(buffer) THEN end ELSE Len(buffer))

\* buffer.toString("hex"): two lower-case digits per byte.
toHex(buffer) ==
  [i \in 1..Len(buffer) |-> [kind |-> "hex", of |-> buffer[i],
                             spelt |-> "lower"]]

\* Buffer.from(string, "hex"): digits of either case, read up to the first
\* pair that is not hex.
RECURSIVE HexPrefix(_)
HexPrefix(string) ==
  IF string = << >> THEN << >>
  ELSE IF Head(string).spelt \notin {"lower", "upper"} THEN << >>
  ELSE <<Head(string)>> \o HexPrefix(Tail(string))

fromHex(string) ==
  LET digits == HexPrefix(string) IN [i \in 1..Len(digits) |-> digits[i].of]

\* The envelope `${iv}:${authTag}:${encrypted}` is kept as its parts, which
\* is what split(":") gives back.  iv is what randomBytes(IV_LENGTH)
\* returned.
encryptFileKey(fileKey, masterKey, iv) ==
  LET encrypted == gcmUpdateFinal(masterKey, iv, fileKey)
      authTag == gcmAuthTag(masterKey, iv, encrypted)
  IN <<toHex(iv), toHex(authTag), toHex(encrypted)>>

decryptFileKey(encryptedKey, masterKey) ==
  IF Len(encryptedKey) # 3 THEN [threw |-> TRUE, buffer |-> << >>]
  ELSE gcmDecipher(masterKey, fromHex(encryptedKey[1]),
                   fromHex(encryptedKey[2]), fromHex(encryptedKey[3]))

\* iv is what randomBytes(IV_LENGTH) returned.
encryptFile(buffer, key, iv) ==
  LET encrypted == gcmUpdateFinal(key, iv, buffer) IN
  [encrypted |-> encrypted, iv |-> iv,
   authTag |-> gcmAuthTag(key, iv, encrypted)]

decryptFile(encrypted, key, iv, authTag) ==
  gcmDecipher(key, iv, authTag, encrypted)

\* createHash("sha256").update(buffer).digest("hex"): a string
calculateFileHash(buffer) == <<[kind |-> "sha256", of |-> buffer]>>

verifyFileHash(buffer, expectedHash) == calculateFileHash(buffer) = expectedHash

\* What getMasterKey() returns for the n-th value of MASTER_KEY.
getMasterKey(n) == <<[kind |-> "env", v |-> n]>>

\* Fault: the hash stored is that of the ciphertext.
EncryptForStorageHashingCiphertext(buffer, n) ==
  LET fileKey == generateFileKey(3 * n)
      e == encryptFile(buffer, fileKey, randomBytes(IV_LENGTH, 3 * n + 1))
  IN [hash |-> calculateFileHash(e.encrypted),
      encryptedData |-> e.iv \o e.authTag \o e.encrypted,
      encryptedFileKey |->
        encryptFileKey(fileKey, MASTER_KEY,
                       randomBytes(IV_LENGTH, 3 * n + 2))]

\* The upload handler between the quota check and the blob write: hash the
\* buffer, draw a file key, encrypt, lay the blob out as nonce, tag,
\* ciphertext, and wrap the file key.  The three random draws of upload n
\* are 3n, 3n+1 and 3n+2.
EncryptForStorage(buffer, n) ==
  LET fileKey == generateFileKey(3 * n)
      e == encryptFile(buffer, fileKey, randomBytes(IV_LENGTH, 3 * n + 1))
  IN [hash |-> calculateFileHash(buffer),
      encryptedData |-> e.iv \o e.authTag \o e.encrypted,
      encryptedFileKey |->
        encryptFileKey(fileKey, MASTER_KEY,
                       randomBytes(IV_LENGTH, 3 * n + 2))]

\* What the upload of file n left behind, for the history.
Wrote(buffer, n) ==
  [buffer |-> buffer, masterKey |-> MASTER_KEY,
   encryptedData |-> EncryptForStorage(buffer, n).encryptedData,
   encryptionKey |-> EncryptForStorage(buffer, n).encryptedFileKey]

\* The serving handlers after the blob is fetched: split it at 12 and 28,
\* unwrap the file key, decrypt, verify the hash.  An exception anywhere is
\* the catch block's 500.
DecryptStored(encryptedData, encryptionKey, hash) ==
  LET iv == Slice(encryptedData, 0, 12)
      authTag == Slice(encryptedData, 12, 28)
      encrypted == Slice(encryptedData, 28, Len(encryptedData))
      fileKey == decryptFileKey(encryptionKey, MASTER_KEY)
      decrypted == decryptFile(encrypted, fileKey.buffer, iv, authTag)
  IN IF fileKey.threw \/ decrypted.threw
     THEN [status |-> 500, error |-> "Failed.", buffer |-> << >>]
     ELSE IF ~verifyFileHash(decrypted.buffer, hash)
     THEN [status |-> 500, error |-> "File integrity check failed.",
           buffer |-> << >>]
     ELSE [status |-> 200, error |-> "", buffer |-> decrypted.buffer]

----------------------------------------------------------------------------
(* Storage quota ledger: lib/storageQuota.ts                               *)

\* The value summed over a set of File ids.
RECURSIVE SumSizes(_)
SumSizes(ids) ==
  IF ids = {} THEN 0
  ELSE LET id == CHOOSE i \in ids : TRUE
       IN file[id].size + SumSizes(ids \ {id})

calculateUserStorage(userId) ==
  SumSizes({id \in DOMAIN file : file[id].userId = userId})

\* findUnique returned null: the call throws "User not found".
checkStorageQuotaThrows(userId) == userId \notin DOMAIN user

\* For a user that exists (the call throws otherwise).
checkStorageQuota(userId, fileSize) ==
  LET quota == IF user[userId].storageQuota = 0 THEN DEFAULT_STORAGE_QUOTA
               ELSE user[userId].storageQuota
      used == user[userId].usedStorage
      available == quota - used
  IN [success |-> available >= fileSize, available |-> available,
      used |-> used, quota |-> quota, required |-> fileSize]

\* Fault: the counter is written back from the value the request read when
\* it checked the quota, instead of being incremented in the store.
updateUsedStorageStale(userId, sizeChange) ==
  LET k == CHOOSE j \in 1..MaxInFlight :
             inflight[j].user = userId /\ inflight[j].pc = "charge"
  IN [user EXCEPT ![userId].usedStorage =
                    inflight[k].quotaCheck.used + sizeChange]

\* The User table after the single UPDATE ... SET usedStorage =
\* usedStorage + sizeChange.
updateUsedStorage(userId, sizeChange) ==
  [user EXCEPT ![userId].usedStorage = @ + sizeChange]

\* Fault: free space is never reported below zero.
getUserStorageStatsClamped(userId) ==
  LET total == IF user[userId].storageQuota = 0 THEN DEFAULT_STORAGE_QUOTA
               ELSE user[userId].storageQuota
      used == user[userId].usedStorage
  IN [total |-> total, used |-> used,
      free |-> IF total - used < 0 THEN 0 ELSE total - used]

\* For a user that exists: total, used and free of the result (percentage
\* is the ratio of the first two again).
getUserStorageStats(userId) ==
  LET total == IF user[userId].storageQuota = 0 THEN DEFAULT_STORAGE_QUOTA
               ELSE user[userId].storageQuota
      used == user[userId].usedStorage
  IN [total |-> total, used |-> used, free |-> total - used]

----------------------------------------------------------------------------
(* Initial state: three registered accounts, root created by               *)
(* scripts/create-admin.ts; alice and root have completed 2FA setup, bob   *)
(* has not; nothing uploaded yet.                                          *)

InitUsers ==
  [u \in Users |->
     [role |-> IF u = "root" THEN "ADMIN" ELSE "USER",
      storageQuota |-> IF u = "root" THEN ADMIN_STORAGE_QUOTA
                       ELSE DEFAULT_STORAGE_QUOTA,
      usedStorage |-> 0]]

InitSecondFactor ==
  [u \in {"alice", "root"} |->
     [enabled |-> TRUE,
      secret |-> Some([enc |-> IF u = "alice" THEN "S1" ELSE "S2"]),
      backupCodes |-> IF u = "alice"
                      THEN <<[code |-> "bk-1", salt |-> 1]>> ELSE << >>]]

\* The users who have 2FA got it by verifying a code for their seed.
InitProved ==
  {<<u, decryptSecret(InitSecondFactor[u].secret[1])>> :
     u \in DOMAIN InitSecondFactor}

Init ==
  /\ user = InitUsers
  /\ secondFactor = InitSecondFactor
  /\ nextSecret = 1
  /\ proved = InitProved
  /\ accepted = << >>
  /\ file = << >>
  /\ blobs = {}
  /\ body = << >>
  /\ MASTER_KEY = getMasterKey(0)
  /\ uploaded = << >>
  /\ fileShare = {}
  /\ stepUpSession = {}
  /\ now = 0
  /\ inflight = [k \in Slots |-> Idle]
  /\ nextUpload = 1
  /\ nextShare = 1
  /\ nextSession = 1
  /\ issued = {}
  /\ charged = [u \in Users |-> 0]
  /\ ledgerFault = FALSE
  /\ last = Response("none", NoUser, 0, None, 0, "", << >>)

----------------------------------------------------------------------------
(* The clock                                                               *)

Tick ==
  /\ now + TickMinutes <= MaxTime
  /\ now' = now + TickMinutes
  /\ UNCHANGED <<db, inflight, nextUpload, nextShare, nextSession, issued,
                 content, enrol, charged, ledgerFault, last>>

----------------------------------------------------------------------------
(* POST /api/auth/step-up                                                  *)

StepUp(u, code) ==
  LET verification == verifyTotpForUser(u, code)
      session == [id |-> nextSession, userId |-> u, token |-> nextSession,
                  expiresAt |-> now + STEP_UP_EXPIRY_MINUTES]
  IN
  /\ u \in DOMAIN user
  /\ nextSession <= MaxSessions
  /\ IF ~verification.valid
     THEN /\ last' = Response("stepUp", u, 0, None, 401, verification.error,
                              <<code>>)
          /\ UNCHANGED <<secondFactor, stepUpSession, nextSession, issued,
                         accepted>>
     ELSE /\ secondFactor' =
               [secondFactor EXCEPT ![u].backupCodes = verification.backupCodes]
          /\ accepted' = IF code.len = 8
                         THEN Append(accepted, <<u, code.val>>)
                         ELSE accepted
          \* create, then deleteMany where expiresAt < now
          /\ stepUpSession' =
               {s \in stepUpSession \cup {session} : ~(s.expiresAt < now)}
          /\ nextSession' = nextSession + 1
          /\ issued' = issued \cup {session}
          /\ last' = Response("stepUp", u, 0, Some(session.token), 200, "",
                              <<code>>)
  /\ UNCHANGED <<user, file, blobs, fileShare, now, inflight, nextUpload,
                 nextShare, content, nextSecret, proved, charged,
                 ledgerFault>>

----------------------------------------------------------------------------
(* POST /api/auth/2fa/setup, POST /api/auth/2fa/verify (setup)             *)

SetupNotFound ==
  "2FA setup not found. Please run /api/auth/2fa/setup first."

\* The whole handler: a fresh seed is generated and the user's row is
\* upserted with it, disabled and without backup codes, whatever the row
\* held before.
TwoFactorSetup(u) ==
  LET secret == generateTotpSecret(nextSecret)
      encryptedSecret == encryptSecret(secret)
      row == [enabled |-> FALSE, secret |-> Some(encryptedSecret),
              backupCodes |-> << >>]
  IN
  /\ u \in DOMAIN user
  /\ nextSecret <= MaxSecrets
  /\ nextSecret' = nextSecret + 1
  /\ secondFactor' =
       IF u \in DOMAIN secondFactor
       THEN [secondFactor EXCEPT ![u] = row]
       ELSE (u :> row) @@ secondFactor
  /\ last' = Response("setup", u, 0, None, 200, "", <<secret>>)
  /\ UNCHANGED <<user, file, blobs, fileShare, stepUpSession, now, inflight,
                 nextUpload, nextShare, nextSession, issued, content, proved,
                 accepted,
                 charged, ledgerFault>>

\* Setup verification up to the await of hashBackupCodes: the row is read
\* and the code is verified against the seed that was read.
SetupVerify(u, code) ==
  LET Reply(status, error) ==
        /\ last' = Response("setupVerify", u, 0, None, status, error,
                            <<code>>)
        /\ UNCHANGED <<inflight, proved>>
  IN
  /\ u \in DOMAIN user
  /\ \E k \in Slots : inflight[k] = Idle
  /\ accepted' = accepted
  /\ IF ~isValidTotpFormat(code)
     THEN Reply(400, "Invalid code format. Must be 6 digits.")
     ELSE IF \/ u \notin DOMAIN secondFactor
             \/ secondFactor[u].secret = None
     THEN Reply(400, SetupNotFound)
     ELSE IF secondFactor[u].enabled
     THEN Reply(400, "2FA is already enabled for this account.")
     ELSE
       LET decryptedSecret == decryptSecret(secondFactor[u].secret[1]) IN
       IF ~verifyTotpToken(code, decryptedSecret)
       THEN Reply(401, "Invalid code. Please try again.")
       ELSE /\ inflight' =
                 [inflight EXCEPT ![FreeSlot] =
                    [Idle EXCEPT !.kind = "setupVerify", !.user = u,
                                 !.pc = "enable",
                                 !.grant = Some([code |-> code,
                                                 secret |-> decryptedSecret])]]
            /\ proved' = proved \cup {<<u, decryptedSecret>>}
            /\ UNCHANGED last
  /\ UNCHANGED <<db, now, nextUpload, nextShare, nextSession, nextSecret,
                 issued, content, charged, ledgerFault>>

\* The update that enables: where { userId }, whatever the row holds now.
SetupVerifyEnable(k) ==
  LET r == inflight[k]
      u == r.user
      hashedBackupCodes ==
        hashBackupCodes(generateBackupCodes(BACKUP_CODES_COUNT))
  IN
  /\ r.kind = "setupVerify" /\ r.pc = "enable"
  /\ IF u \in DOMAIN secondFactor
     THEN /\ secondFactor' =
               [secondFactor EXCEPT ![u].enabled = TRUE,
                                    ![u].backupCodes = hashedBackupCodes]
          /\ last' = Response("setupVerify", u, 0, None, 200, "",
                              <<r.grant[1].code>>)
     ELSE /\ last' = Response("setupVerify", u, 0, None, 500,
                              "Failed to verify 2FA code. Please try again.",
                              <<r.grant[1].code>>)
          /\ UNCHANGED secondFactor
  /\ Finish(k)
  /\ UNCHANGED <<user, file, blobs, fileShare, stepUpSession, now,
                 nextUpload, nextShare, nextSession, issued, content, enrol,
                 charged, ledgerFault>>

----------------------------------------------------------------------------
(* A call of validateFile                                                  *)

ValidateFile(size, mimeType, fileName) ==
  /\ last' = Response("validateFile", NoUser, 0, None, 0,
                      validateFile(size, mimeType, fileName),
                      <<size, mimeType, fileName>>)
  /\ UNCHANGED <<db, now, inflight, nextUpload, nextShare, nextSession,
                 issued, content, enrol, charged, ledgerFault>>

----------------------------------------------------------------------------
(* Login: credentialsAuthProvider.authorize, POST /api/auth/2fa/verify     *)

Authorizing == {k \in Slots : inflight[k].kind = "authorize"}

\* authorize up to its call of verifyTotpForUser: the password is right, the
\* user is read with its second factor.  At most atOnce logins are under
\* way together.
AuthorizeBegin(u, totpCode, atOnce) ==
  LET has2FAEnabled == u \in DOMAIN secondFactor /\ secondFactor[u].enabled
      Reply(status, error) ==
        /\ last' = Response("authorize", u, 0, None, status, error,
                            <<totpCode>>)
        /\ UNCHANGED inflight
  IN
  /\ u \in DOMAIN user
  /\ \E k \in Slots : inflight[k] = Idle
  /\ Cardinality(Authorizing) < atOnce
  /\ IF ~has2FAEnabled
     THEN Reply(200, "")
     ELSE IF totpCode = None
     THEN Reply(401, "2FA_REQUIRED")
     ELSE /\ inflight' =
               [inflight EXCEPT ![FreeSlot] =
                  [Idle EXCEPT !.kind = "authorize", !.user = u,
                               !.pc = "verify",
                               !.grant = Some([code |-> totpCode[1],
                                               backupCodes |-> << >>])]]
          /\ UNCHANGED last
  /\ UNCHANGED <<db, now, nextUpload, nextShare, nextSession, issued,
                 content, enrol, charged, ledgerFault>>

\* verifyTotpForUser up to its update: the row is read and the code is
\* compared with what was read; an accepted backup code leaves the list
\* that is to be written in the request's hands.
AuthorizeVerify(k) ==
  LET r == inflight[k]
      u == r.user
      code == r.grant[1].code
      verification == verifyTotpForUser(u, code)
  IN
  /\ r.kind = "authorize" /\ r.pc = "verify"
  /\ IF ~verification.valid
     THEN /\ last' = Response("authorize", u, 0, None, 401,
                              verification.error, <<Some(code)>>)
          /\ Finish(k)
     ELSE IF code.len = 8
     THEN /\ inflight' =
               [inflight EXCEPT ![k].pc = "consume",
                                ![k].grant =
                                  Some([code |-> code,
                                        backupCodes |->
                                          verification.backupCodes])]
          /\ UNCHANGED last
     ELSE \* update of lastVerifiedAt
          /\ last' = Response("authorize", u, 0, None, 200, "",
                              <<Some(code)>>)
          /\ Finish(k)
  /\ UNCHANGED <<db, now, nextUpload, nextShare, nextSession, issued,
                 content, enrol, charged, ledgerFault>>

\* Fault: the update is made only while the code is still stored, and
\* removes it from the list as it is then.
AuthorizeConsumeLocked(k) ==
  LET r == inflight[k]
      u == r.user
      code == r.grant[1].code
      still == IF u \in DOMAIN secondFactor
               THEN {i \in 1..Len(secondFactor[u].backupCodes) :
                       bcryptCompare(code, secondFactor[u].backupCodes[i])}
               ELSE {}
  IN
  /\ r.kind = "authorize" /\ r.pc = "consume"
  /\ IF still # {}
     THEN /\ secondFactor' =
               [secondFactor EXCEPT ![u].backupCodes =
                  RemoveAt(@, CHOOSE i \in still : \A j \in still : i <= j)]
          /\ accepted' = Append(accepted, <<u, code.val>>)
          /\ last' = Response("authorize", u, 0, None, 200, "",
                              <<Some(code)>>)
     ELSE /\ last' = Response("authorize", u, 0, None, 401,
                              "Invalid 2FA code.", <<Some(code)>>)
          /\ UNCHANGED <<secondFactor, accepted>>
  /\ Finish(k)
  /\ UNCHANGED <<user, file, blobs, fileShare, stepUpSession, now,
                 nextUpload, nextShare, nextSession, issued, content,
                 nextSecret, proved, charged, ledgerFault>>

\* The update that stores what is left of the list that was read.
AuthorizeConsume(k) ==
  LET r == inflight[k]
      u == r.user
      code == r.grant[1].code
  IN
  /\ r.kind = "authorize" /\ r.pc = "consume"
  /\ IF u \in DOMAIN secondFactor
     THEN /\ secondFactor' =
               [secondFactor EXCEPT ![u].backupCodes = r.grant[1].backupCodes]
          /\ accepted' = Append(accepted, <<u, code.val>>)
          /\ last' = Response("authorize", u, 0, None, 200, "",
                              <<Some(code)>>)
     ELSE /\ last' = Response("authorize", u, 0, None, 401,
                              "Record to update not found.", <<Some(code)>>)
          /\ UNCHANGED <<secondFactor, accepted>>
  /\ Finish(k)
  /\ UNCHANGED <<user, file, blobs, fileShare, stepUpSession, now,
                 nextUpload, nextShare, nextSession, issued, content,
                 nextSecret, proved, charged, ledgerFault>>

\* The login branch of the verify endpoint (isLogin, userId in the body).
\* The format test comes first and lets six digits through only.
LoginVerify(userId, code) ==
  LET Reply(status, error) ==
        last' = Response("loginVerify", userId, 0, None, status, error,
                         <<code>>)
      sf == secondFactor[userId]
      isBackupCodeFormat == code.len = 8
      matches == {i \in 1..Len(sf.backupCodes) :
                    verifyBackupCode(code, <<sf.backupCodes[i]>>)}
      usedCodeIndex == IF matches = {} THEN 0
                       ELSE CHOOSE i \in matches : \A j \in matches : i <= j
  IN
  /\ IF ~isValidTotpFormat(code)
     THEN /\ Reply(400, "Invalid code format. Must be 6 digits.")
          /\ UNCHANGED <<secondFactor, accepted>>
     ELSE IF \/ userId \notin DOMAIN secondFactor
             \/ ~secondFactor[userId].enabled
             \/ secondFactor[userId].secret = None
     THEN /\ Reply(400, "2FA is not enabled for this user.")
          /\ UNCHANGED <<secondFactor, accepted>>
     ELSE IF /\ isBackupCodeFormat
             /\ Len(sf.backupCodes) > 0
             /\ verifyBackupCode(code, sf.backupCodes)
     THEN /\ secondFactor' =
               [secondFactor EXCEPT ![userId].backupCodes =
                  IF usedCodeIndex >= 1 THEN RemoveAt(@, usedCodeIndex)
                  ELSE @]
          /\ accepted' = Append(accepted, <<userId, code.val>>)
          /\ Reply(200, "")
     ELSE IF ~verifyTotpToken(code, decryptSecret(sf.secret[1]))
     THEN /\ Reply(401, "Invalid 2FA code. Please try again.")
          /\ UNCHANGED <<secondFactor, accepted>>
     ELSE /\ Reply(200, "")
          /\ UNCHANGED <<secondFactor, accepted>>
  /\ UNCHANGED <<user, file, blobs, fileShare, stepUpSession, now, inflight,
                 nextUpload, nextShare, nextSession, issued, content,
                 nextSecret, proved, charged, ledgerFault>>

----------------------------------------------------------------------------
(* POST /api/files/upload                                                  *)

\* Fault: the quota is checked against the size that was received.
QuotaCheckOfUpload(u, size, c) == checkStorageQuota(u, size)

\* checkStorageQuota(userId, buffer.length): buffer is by now what the
\* compression step left, not the size bytes that were received.
QuotaCheckOfBuffer(u, size, c) == checkStorageQuota(u, c.size)

\* Up to the last await before the blob write: compress, validate, check the
\* quota, hash and encrypt.  c is what compressFile returned, data the bytes
\* received.
UploadBegin(u, size, mimeType, name, compress, c, data) ==
  LET error == validateFile(c.size, c.mimeType, name)
      buffer == IF c.size = size THEN data ELSE Compressed(data)
      sealed == EncryptForStorage(buffer, nextUpload)
      quotaCheck == QuotaCheckOfBuffer(u, size, c)
      seen == [size |-> c.size, mimeType |-> c.mimeType, name |-> name,
               available |-> quotaCheck.available,
               required |-> quotaCheck.required]
  IN
  /\ u \in DOMAIN user
  /\ nextUpload <= MaxFiles
  /\ \E k \in Slots : inflight[k] = Idle
  /\ c \in (IF compress /\ isCompressible(mimeType)
             THEN compressFile(size, mimeType)
             ELSE {[threw |-> FALSE, size |-> size, mimeType |-> mimeType]})
  /\ IF c.threw
     THEN /\ last' = Response("upload", u, 0, None, 500,
                              "Failed to upload file.", << >>)
          /\ UNCHANGED <<inflight, nextUpload, uploaded>>
     ELSE IF error # ""
     THEN /\ last' = Response("upload", u, 0, None, 400, error, seen)
          /\ UNCHANGED <<inflight, nextUpload, uploaded>>
     ELSE IF ~quotaCheck.success
     THEN /\ last' = Response("upload", u, 0, None, 413,
                              "Storage quota exceeded", seen)
          /\ UNCHANGED <<inflight, nextUpload, uploaded>>
     ELSE /\ inflight' = [inflight EXCEPT ![FreeSlot] =
                            [kind |-> "upload", user |-> u,
                             fileId |-> nextUpload, path |-> nextUpload,
                             size |-> c.size, quotaCheck |-> quotaCheck,
                             pc |-> "put",
                             encryptedData |-> sealed.encryptedData,
                             hash |-> sealed.hash,
                             encryptedFileKey |-> sealed.encryptedFileKey,
                             grant |-> None]]
          /\ nextUpload' = nextUpload + 1
          /\ uploaded' = (nextUpload :> Wrote(buffer, nextUpload)) @@ uploaded
          /\ UNCHANGED last
  /\ UNCHANGED <<db, body, MASTER_KEY, now, nextShare, nextSession, issued, enrol,
                 charged, ledgerFault>>

UploadFailed(k) ==
  /\ Finish(k)
  /\ last' = Response("upload", inflight[k].user, 0, None, 500,
                      "Failed to upload file.", << >>)

\* Fault: the counter is incremented as soon as the blob is written.
UploadPutCharging(k) ==
  /\ inflight[k].kind = "upload" /\ inflight[k].pc = "put"
  /\ blobs' = blobs \cup {inflight[k].path}
  /\ body' = (inflight[k].path :> inflight[k].encryptedData) @@ body
  /\ user' = updateUsedStorage(inflight[k].user, inflight[k].size)
  /\ charged' = [charged EXCEPT ![inflight[k].user] = @ + inflight[k].size]
  /\ inflight' = [inflight EXCEPT ![k].pc = "create"]
  /\ UNCHANGED <<secondFactor, file, fileShare, stepUpSession, now,
                 nextUpload, nextShare, nextSession, issued, enrol, MASTER_KEY,
                 uploaded, ledgerFault, last>>

\* uploadFile: the PutObject succeeds or throws.
UploadPut(k) ==
  /\ inflight[k].kind = "upload" /\ inflight[k].pc = "put"
  /\ \/ /\ blobs' = blobs \cup {inflight[k].path}
        /\ body' = (inflight[k].path :> inflight[k].encryptedData) @@ body
        /\ inflight' = [inflight EXCEPT ![k].pc = "create"]
        /\ UNCHANGED last
     \/ /\ UploadFailed(k)
        /\ UNCHANGED <<blobs, body>>
  /\ UNCHANGED <<user, secondFactor, file, fileShare, stepUpSession, now,
                 nextUpload, nextShare, nextSession, issued, enrol, MASTER_KEY,
                 uploaded, charged, ledgerFault>>

\* prismaClient.file.create: the INSERT succeeds (the owner must exist) or
\* throws.
UploadCreate(k) ==
  /\ inflight[k].kind = "upload" /\ inflight[k].pc = "create"
  /\ \/ /\ inflight[k].user \in DOMAIN user
        /\ file' = (inflight[k].fileId :>
                      [userId |-> inflight[k].user, size |-> inflight[k].size,
                       path |-> inflight[k].path, hash |-> inflight[k].hash,
                       encryptionKey |-> inflight[k].encryptedFileKey])
                   @@ file
        /\ inflight' = [inflight EXCEPT ![k].pc = "charge"]
        /\ UNCHANGED last
     \/ /\ UploadFailed(k)
        /\ UNCHANGED file
  /\ UNCHANGED <<user, secondFactor, blobs, fileShare, stepUpSession, now,
                 nextUpload, nextShare, nextSession, issued, content, enrol, charged,
                 ledgerFault>>

\* updateUsedStorage(userId, buffer.length), then the 201 response.
UploadCharge(k) ==
  /\ inflight[k].kind = "upload" /\ inflight[k].pc = "charge"
  /\ \/ /\ inflight[k].user \in DOMAIN user
        /\ user' = updateUsedStorage(inflight[k].user, inflight[k].size)
        /\ charged' = [charged EXCEPT ![inflight[k].user] =
                                        @ + inflight[k].size]
        /\ Finish(k)
        /\ last' = Response("upload", inflight[k].user, inflight[k].fileId,
                            None, 201, "", << >>)
        /\ UNCHANGED ledgerFault
     \/ /\ UploadFailed(k)
        /\ ledgerFault' = TRUE
        /\ UNCHANGED <<user, charged>>
  /\ UNCHANGED <<secondFactor, file, blobs, fileShare, stepUpSession, now,
                 nextUpload, nextShare, nextSession, issued, content, enrol>>

----------------------------------------------------------------------------
(* GET /api/user/storage                                                   *)

StorageStats(u) ==
  /\ last' = IF u \notin DOMAIN user
             THEN Response("stats", u, 0, None, 500,
                           "Failed to get storage statistics.", << >>)
             ELSE Response("stats", u, 0, None, 200, "",
                           <<getUserStorageStats(u)>>)
  /\ UNCHANGED <<db, now, inflight, nextUpload, nextShare, nextSession,
                 issued, content, enrol, charged, ledgerFault>>

----------------------------------------------------------------------------
(* DELETE /api/files/[id]                                                  *)

\* Up to the last await before the blob is deleted: find the file, check the
\* permission, require step-up.
DeleteBegin(u, id, headerToken) ==
  LET stepUpCheck == requireStepUp(u, "DELETE", headerToken, None) IN
  /\ u \in DOMAIN user
  /\ \E k \in Slots : inflight[k] = Idle
  /\ IF id \notin DOMAIN file
     THEN /\ last' = Response("deleteFile", u, id, headerToken, 404,
                              "File not found.", << >>)
          /\ UNCHANGED <<inflight, stepUpSession>>
     ELSE IF ~canDeleteFile(u, id)
     THEN /\ last' = Response("deleteFile", u, id, headerToken, 403,
                              "Permission denied.", << >>)
          /\ UNCHANGED <<inflight, stepUpSession>>
     ELSE IF ~stepUpCheck.valid
     THEN /\ last' = Response("deleteFile", u, id, headerToken, 403,
                              stepUpCheck.error, << >>)
          /\ stepUpSession' = stepUpCheck.sessions
          /\ UNCHANGED inflight
     ELSE /\ inflight' = [inflight EXCEPT ![FreeSlot] =
                            [kind |-> "delete", user |-> u, fileId |-> id,
                             path |-> file[id].path, size |-> file[id].size,
                             quotaCheck |-> NoCheck, pc |-> "blob",
                             encryptedData |-> << >>, hash |-> << >>,
                             encryptedFileKey |-> << >>, grant |-> None]]
          /\ stepUpSession' = stepUpCheck.sessions
          /\ last' = Response("deleteFile", u, id, headerToken, 0, "", << >>)
  /\ UNCHANGED <<user, secondFactor, file, blobs, fileShare, now, nextUpload,
                 nextShare, nextSession, issued, content, enrol, charged,
                 ledgerFault>>

DeleteFailed(k) ==
  /\ Finish(k)
  /\ last' = Response("deleteFile", inflight[k].user, inflight[k].fileId,
                      None, 500, "Failed to delete file.", << >>)

\* deleteFileFromStorage: the DeleteObject succeeds (also when the key is
\* already gone) or throws.
DeleteBlob(k) ==
  /\ inflight[k].kind = "delete" /\ inflight[k].pc = "blob"
  /\ \/ /\ blobs' = blobs \ {inflight[k].path}
        /\ body' = [p \in DOMAIN body \ {inflight[k].path} |-> body[p]]
        /\ inflight' = [inflight EXCEPT ![k].pc = "record"]
        /\ UNCHANGED last
     \/ /\ DeleteFailed(k)
        /\ UNCHANGED <<blobs, body>>
  /\ UNCHANGED <<user, secondFactor, file, fileShare, stepUpSession, now,
                 nextUpload, nextShare, nextSession, issued, enrol, MASTER_KEY,
                 uploaded, charged, ledgerFault>>

\* prismaClient.file.delete: the row must still be there; its FileShare rows
\* go with it (ON DELETE CASCADE).
DeleteRecord(k) ==
  /\ inflight[k].kind = "delete" /\ inflight[k].pc = "record"
  /\ \/ /\ inflight[k].fileId \in DOMAIN file
        /\ file' = [id \in DOMAIN file \ {inflight[k].fileId} |-> file[id]]
        /\ fileShare' = {s \in fileShare : s.fileId # inflight[k].fileId}
        /\ inflight' = [inflight EXCEPT ![k].pc = "charge"]
        /\ UNCHANGED last
     \/ /\ DeleteFailed(k)
        /\ UNCHANGED <<file, fileShare>>
  /\ UNCHANGED <<user, secondFactor, blobs, stepUpSession, now, nextUpload,
                 nextShare, nextSession, issued, content, enrol, charged,
                 ledgerFault>>

\* Fault: the handler answers 200 without decrementing the counter.
DeleteChargeSkipped(k) ==
  /\ inflight[k].kind = "delete" /\ inflight[k].pc = "charge"
  /\ Finish(k)
  /\ last' = Response("deleteFile", inflight[k].user, inflight[k].fileId,
                      None, 200, "", << >>)
  /\ UNCHANGED <<user, secondFactor, file, blobs, fileShare, stepUpSession,
                 now, nextUpload, nextShare, nextSession, issued, content, enrol,
                 charged, ledgerFault>>

\* updateUsedStorage(userId, -file.size), then the 200 response.
DeleteCharge(k) ==
  /\ inflight[k].kind = "delete" /\ inflight[k].pc = "charge"
  /\ \/ /\ inflight[k].user \in DOMAIN user
        /\ user' = updateUsedStorage(inflight[k].user, 0 - inflight[k].size)
        /\ charged' = [charged EXCEPT ![inflight[k].user] =
                                        @ - inflight[k].size]
        /\ Finish(k)
        /\ last' = Response("deleteFile", inflight[k].user,
                            inflight[k].fileId, None, 200, "", << >>)
        /\ UNCHANGED ledgerFault
     \/ /\ DeleteFailed(k)
        /\ ledgerFault' = TRUE
        /\ UNCHANGED <<user, charged>>
  /\ UNCHANGED <<secondFactor, file, blobs, fileShare, stepUpSession, now,
                 nextUpload, nextShare, nextSession, issued, content, enrol>>

----------------------------------------------------------------------------
(* POST /api/files/[id]/share                                              *)

\* sharedWith is a user id or None; the lookup by e-mail resolves to the same
\* users.  stepUpToken is the body field.  A public share is created here;
\* a private one is looked up here (findFirst) and written by ShareWrite,
\* after the await.
ShareFile(u, fileId, sharedWith, permission, expiresAt, isPublic, headerToken, stepUpToken) ==
  LET token == IF headerToken # None THEN headerToken ELSE stepUpToken
      check == verifyStepUpToken(u, token)
      sessions == IF isPublic /\ token # None THEN check.sessions
                  ELSE stepUpSession
      existing == {s \in fileShare : /\ s.fileId = fileId
                                     /\ s.sharedWith = sharedWith[1]
                                     /\ ActiveShare(s)}
      existingShare == CHOOSE s \in existing : \A t \in existing : s.id <= t.id
      share == [id |-> nextShare, fileId |-> fileId, sharedBy |-> u,
                sharedWith |-> IF isPublic THEN NoUser ELSE sharedWith[1],
                permission |-> permission,
                token |-> IF isPublic THEN Some(nextShare) ELSE None,
                expiresAt |-> expiresAt]
      Reply(status, error) ==
        /\ last' = Response("share", u, fileId, token, status, error, << >>)
        /\ UNCHANGED <<fileShare, nextShare, inflight>>
  IN
  /\ u \in DOMAIN user
  /\ nextShare + Cardinality({k \in Slots : inflight[k].kind = "share"})
       <= MaxShares
  /\ \E k \in Slots : inflight[k] = Idle
  /\ stepUpSession' = IF fileId \in DOMAIN file /\ file[fileId].userId = u
                         /\ permission \in SharePermission
                      THEN sessions ELSE stepUpSession
  /\ IF fileId \notin DOMAIN file
     THEN Reply(404, "File not found.")
     ELSE IF file[fileId].userId # u
     THEN Reply(403, "Permission denied. Only file owner can share.")
     ELSE IF permission \notin SharePermission
     THEN Reply(400, "Invalid permission. Must be READ or READ_WRITE.")
     ELSE IF isPublic /\ token = None
     THEN Reply(403, "Step-up authentication required for public sharing.")
     ELSE IF isPublic /\ ~check.valid
     THEN Reply(403, "Invalid or expired step-up token.")
     ELSE IF isPublic /\ sharedWith # None
     THEN Reply(400, "Public share cannot have sharedWith.")
     ELSE IF ~isPublic /\ sharedWith = None
     THEN Reply(400, "Private share requires sharedWith.")
     ELSE IF ~isPublic /\ sharedWith[1] \notin DOMAIN user
     THEN Reply(404, "Target user not found.")
     ELSE IF ~isPublic /\ sharedWith[1] = u
     THEN Reply(400, "You cannot share a file with yourself.")
     ELSE IF ~isPublic
     THEN /\ inflight' = [inflight EXCEPT ![FreeSlot] =
                            [Idle EXCEPT
                               !.kind = "share", !.user = u,
                               !.fileId = fileId,
                               !.pc = IF existing # {} THEN "update"
                                      ELSE "create",
                               !.grant = Some(
                                 [existingShare |->
                                    IF existing # {} THEN existingShare.id
                                    ELSE 0,
                                  targetUserId |-> sharedWith[1],
                                  permission |-> permission,
                                  expiresAt |-> expiresAt,
                                  token |-> token])]]
          /\ UNCHANGED <<fileShare, nextShare, last>>
     ELSE /\ fileShare' = fileShare \cup {share}
          /\ nextShare' = nextShare + 1
          /\ last' = Response("share", u, fileId, token, 201, "",
                              <<share.id>>)
          /\ UNCHANGED inflight
  /\ UNCHANGED <<user, secondFactor, file, blobs, now, nextUpload,
                 nextSession, issued, content, enrol, charged, ledgerFault>>

\* The write of a private share: fileShare.update of the row findFirst
\* returned (which throws when the row is gone), or fileShare.create (which
\* throws when the file is gone).
ShareWrite(k) ==
  LET g == inflight[k].grant[1]
      found == {s \in fileShare : s.id = g.existingShare}
      u == inflight[k].user
      fileId == inflight[k].fileId
  IN
  /\ inflight[k].kind = "share"
  /\ Finish(k)
  /\ IF inflight[k].pc = "update" /\ found # {}
     THEN /\ fileShare' = {IF s.id = g.existingShare
                           THEN [s EXCEPT !.permission = g.permission,
                                          !.expiresAt = g.expiresAt]
                           ELSE s : s \in fileShare}
          /\ last' = Response("share", u, fileId, g.token, 200, "",
                              <<g.existingShare>>)
          /\ UNCHANGED nextShare
     ELSE IF inflight[k].pc = "create" /\ fileId \in DOMAIN file
     THEN /\ fileShare' = fileShare \cup
                            {[id |-> nextShare, fileId |-> fileId,
                              sharedBy |-> u, sharedWith |-> g.targetUserId,
                              permission |-> g.permission, token |-> None,
                              expiresAt |-> g.expiresAt]}
          /\ nextShare' = nextShare + 1
          /\ last' = Response("share", u, fileId, g.token, 201, "",
                              <<nextShare>>)
     ELSE /\ last' = Response("share", u, fileId, g.token, 500,
                              "Failed to share file.", << >>)
          /\ UNCHANGED <<fileShare, nextShare>>
  /\ UNCHANGED <<user, secondFactor, file, blobs, stepUpSession, now,
                 nextUpload, nextSession, issued, content, enrol, charged,
                 ledgerFault>>

----------------------------------------------------------------------------
(* DELETE /api/files/[id]/share/[shareId], DELETE /api/shares/[shareId]    *)

ShareById(shareId) == {s \in fileShare : s.id = shareId}

\* Fault: the share is not compared with the file named in the path.
RevokeShareOfAnyFile(u, fileId, shareId) ==
  LET Reply(status, error) ==
        last' = Response("revokeShare", u, fileId, None, status, error,
                         <<shareId>>)
  IN
  /\ u \in DOMAIN user
  /\ IF fileId \notin DOMAIN file
     THEN Reply(404, "File not found.") /\ UNCHANGED fileShare
     ELSE IF file[fileId].userId # u
     THEN /\ Reply(403, "Permission denied. Only file owner can revoke shares.")
          /\ UNCHANGED fileShare
     ELSE IF ShareById(shareId) = {}
     THEN Reply(404, "Share not found.") /\ UNCHANGED fileShare
     ELSE /\ fileShare' = fileShare \ ShareById(shareId)
          /\ Reply(200, "")
  /\ UNCHANGED <<user, secondFactor, file, blobs, stepUpSession, now,
                 inflight, nextUpload, nextShare, nextSession, issued,
                 content, enrol, charged, ledgerFault>>

\* The owner's side: the file named in the path must be the requester's and
\* the share must be one of that file.
RevokeShare(u, fileId, shareId) ==
  LET Reply(status, error) ==
        last' = Response("revokeShare", u, fileId, None, status, error,
                         <<shareId>>)
      share == CHOOSE s \in ShareById(shareId) : TRUE
  IN
  /\ u \in DOMAIN user
  /\ IF fileId \notin DOMAIN file
     THEN Reply(404, "File not found.") /\ UNCHANGED fileShare
     ELSE IF file[fileId].userId # u
     THEN /\ Reply(403, "Permission denied. Only file owner can revoke shares.")
          /\ UNCHANGED fileShare
     ELSE IF ShareById(shareId) = {}
     THEN Reply(404, "Share not found.") /\ UNCHANGED fileShare
     ELSE IF share.fileId # fileId
     THEN /\ Reply(400, "Share does not belong to this file.")
          /\ UNCHANGED fileShare
     ELSE /\ fileShare' = fileShare \ {share}
          /\ Reply(200, "")
  /\ UNCHANGED <<user, secondFactor, file, blobs, stepUpSession, now,
                 inflight, nextUpload, nextShare, nextSession, issued,
                 content, enrol, charged, ledgerFault>>

RecipientOnly ==
  "Permission denied. Only the recipient can remove a shared file."

\* The recipient's side: the share must name the requester as its target.
RemoveSharedFile(u, shareId) ==
  LET share == CHOOSE s \in ShareById(shareId) : TRUE
      Reply(f, status, error) ==
        last' = Response("removeShared", u, f, None, status, error,
                         <<shareId>>)
  IN
  /\ u \in DOMAIN user
  /\ IF ShareById(shareId) = {}
     THEN Reply(0, 404, "Share not found.") /\ UNCHANGED fileShare
     ELSE IF share.sharedWith # u
     THEN /\ Reply(share.fileId, 403, RecipientOnly)
          /\ UNCHANGED fileShare
     ELSE /\ fileShare' = fileShare \ {share}
          /\ Reply(share.fileId, 200, "")
  /\ UNCHANGED <<user, secondFactor, file, blobs, stepUpSession, now,
                 inflight, nextUpload, nextShare, nextSession, issued,
                 content, enrol, charged, ledgerFault>>

----------------------------------------------------------------------------
(* What is stored changes outside the handlers: the bucket object, the     *)
(* encryptionKey column, the MASTER_KEY of the environment                  *)

Junk == [kind |-> "junk", v |-> 0]

\* The object under a key is replaced: the byte at a position altered, the
\* last byte cut off, a byte added, or the object of another file put in
\* its place.
EditBlob(data, edit) ==
  IF edit.op = "alter" THEN [data EXCEPT ![edit.at] = Junk]
  ELSE IF edit.op = "cut" THEN SubSeq(data, 1, Len(data) - 1)
  ELSE IF edit.op = "add" THEN Append(data, Junk)
  ELSE body[file[edit.at].path]

\* The envelope is replaced: the first hex pair of a part altered, or
\* written in upper case, characters that are not hex added to a part, the
\* last part cut off, a part added, or the envelope of another file put in
\* its place.
EditEnvelope(e, edit) ==
  IF edit.op = "alter" THEN [e EXCEPT ![edit.at][1].of = Junk]
  ELSE IF edit.op = "upper" THEN [e EXCEPT ![edit.at][1].spelt = "upper"]
  ELSE IF edit.op = "nonhex"
  THEN [e EXCEPT ![edit.at] = Append(@, [kind |-> "hex", of |-> Junk,
                                         spelt |-> "none"])]
  ELSE IF edit.op = "cut" THEN SubSeq(e, 1, 2)
  ELSE IF edit.op = "add" THEN Append(e, << >>)
  ELSE file[edit.at].encryptionKey

\* Each of the three is changed at most once from what the upload wrote.
TamperBlob(id, edit) ==
  /\ id \in DOMAIN file /\ file[id].path \in blobs
  /\ body[file[id].path] = uploaded[id].encryptedData
  /\ edit.op = "alter" => edit.at \in DOMAIN body[file[id].path]
  /\ edit.op = "swap" => /\ edit.at \in DOMAIN file \ {id}
                         /\ file[edit.at].path \in blobs
  /\ body' = [body EXCEPT ![file[id].path] = EditBlob(@, edit)]
  /\ UNCHANGED <<db, MASTER_KEY, uploaded, now, inflight, nextUpload,
                 nextShare, nextSession, issued, enrol, charged, ledgerFault, last>>

TamperEnvelope(id, edit) ==
  /\ id \in DOMAIN file
  /\ file[id].encryptionKey = uploaded[id].encryptionKey
  /\ edit.op = "swap" => edit.at \in DOMAIN file \ {id}
  /\ file' = [file EXCEPT ![id].encryptionKey = EditEnvelope(@, edit)]
  /\ UNCHANGED <<user, secondFactor, blobs, fileShare, stepUpSession,
                 content, enrol, now, inflight, nextUpload, nextShare, nextSession,
                 issued, charged, ledgerFault, last>>

ChangeMasterKey ==
  /\ MASTER_KEY = getMasterKey(0)
  /\ MASTER_KEY' = getMasterKey(1)
  /\ UNCHANGED <<db, body, uploaded, now, inflight, nextUpload, nextShare,
                 nextSession, issued, enrol, charged, ledgerFault, last>>

----------------------------------------------------------------------------
(* GET /api/files/[id]/view, GET /api/files/[id]/download,                 *)
(* GET /api/files/shared/[token]                                           *)

CatchMessage(op) == IF op = "view" THEN "Failed to view file."
                    ELSE "Failed to download file."

\* The response of a handler that serves the file's bytes once access is
\* granted: 500 when the blob cannot be fetched, decrypted or verified,
\* else 200 with the Content-Disposition and the decrypted bytes.
Serve(op, u, id, disposition) ==
  LET d == DecryptStored(body[file[id].path], file[id].encryptionKey,
                         file[id].hash)
  IN IF file[id].path \notin blobs
     THEN Response(op, u, id, None, 500, CatchMessage(op), << >>)
     ELSE IF d.status # 200
     THEN Response(op, u, id, None, 500,
                   IF d.error = "Failed." THEN CatchMessage(op) ELSE d.error,
                   << >>)
     ELSE Response(op, u, id, None, 200, "", <<disposition, d.buffer>>)

ViewFile(u, id) ==
  /\ u \in DOMAIN user
  /\ last' = IF id \notin DOMAIN file
             THEN Response("view", u, id, None, 404, "File not found.", << >>)
             ELSE IF ~canViewFile(u, id)
             THEN Response("view", u, id, None, 403, "Permission denied.",
                           << >>)
             ELSE Serve("view", u, id, "inline")
  /\ UNCHANGED <<db, now, inflight, nextUpload, nextShare, nextSession,
                 issued, content, enrol, charged, ledgerFault>>

DownloadFile(u, id) ==
  /\ u \in DOMAIN user
  /\ last' = IF id \notin DOMAIN file
             THEN Response("download", u, id, None, 404, "File not found.",
                           << >>)
             ELSE IF ~canViewFile(u, id)
             THEN Response("download", u, id, None, 403, "Permission denied.",
                           << >>)
             ELSE Serve("download", u, id, "attachment")
  /\ UNCHANGED <<db, now, inflight, nextUpload, nextShare, nextSession,
                 issued, content, enrol, charged, ledgerFault>>

\* The public endpoint: no session; token is the path parameter, download
\* the query parameter.
SharedGet(token, download) ==
  LET shareInfo == validateShareToken(token)
      id == shareInfo[1].fileId
  IN
  /\ last' = IF shareInfo = None
             THEN Response("shared", NoUser, 0, Some(token), 404,
                           "Invalid or expired share token.", << >>)
             ELSE IF download /\ shareInfo[1].permission = "READ"
             THEN Response("shared", NoUser, id, Some(token), 403,
                           "Download is not allowed.", << >>)
             ELSE IF id \notin DOMAIN file
             THEN Response("shared", NoUser, id, Some(token), 404,
                           "File not found.", << >>)
             ELSE [Serve("shared", NoUser, id,
                         IF download THEN "attachment" ELSE "inline")
                   EXCEPT !.token = Some(token)]
  /\ UNCHANGED <<db, now, inflight, nextUpload, nextShare, nextSession,
                 issued, content, enrol, charged, ledgerFault>>

----------------------------------------------------------------------------
(* PUT /api/admin/users/[id]/role, DELETE /api/admin/users/[id]            *)

\* The session's role is the User row's.
requireAdmin(u) == user[u].role = "ADMIN"

ChangeRole(adminId, id, role, headerToken) ==
  LET stepUpCheck == requireStepUp(adminId, "PUT", headerToken, None)
      Reply(status, error) ==
        /\ last' = Response("changeRole", adminId, 0, headerToken, status,
                            error, <<id>>)
        /\ UNCHANGED user
  IN
  /\ adminId \in DOMAIN user
  /\ stepUpSession' = IF requireAdmin(adminId) THEN stepUpCheck.sessions
                      ELSE stepUpSession
  /\ IF ~requireAdmin(adminId) THEN Reply(403, "Forbidden")
     ELSE IF ~stepUpCheck.valid THEN Reply(403, stepUpCheck.error)
     ELSE IF role \notin Role THEN Reply(400, "Invalid role.")
     ELSE IF id \notin DOMAIN user THEN Reply(404, "User not found.")
     ELSE IF id = adminId THEN Reply(400, "Cannot change your own role.")
     ELSE /\ user' = [user EXCEPT ![id].role = role]
          /\ last' = Response("changeRole", adminId, 0, headerToken, 200, "",
                              <<id>>)
  /\ UNCHANGED <<secondFactor, file, blobs, fileShare, now, inflight,
                 nextUpload, nextShare, nextSession, issued, content, enrol, charged,
                 ledgerFault>>

\* Deleting the User row deletes its SecondFactor row, its File rows and
\* their FileShare rows (ON DELETE CASCADE); blobs are not touched.
DeleteUser(adminId, id, headerToken) ==
  LET stepUpCheck == requireStepUp(adminId, "DELETE", headerToken, None)
      gone == {f \in DOMAIN file : file[f].userId = id}
      Reply(status, error) ==
        /\ last' = Response("deleteUser", adminId, 0, headerToken, status,
                            error, <<id>>)
        /\ UNCHANGED <<user, secondFactor, file, fileShare>>
  IN
  /\ adminId \in DOMAIN user
  /\ stepUpSession' = IF requireAdmin(adminId) THEN stepUpCheck.sessions
                      ELSE stepUpSession
  /\ IF ~requireAdmin(adminId) THEN Reply(403, "Forbidden")
     ELSE IF ~stepUpCheck.valid THEN Reply(403, stepUpCheck.error)
     ELSE IF id = adminId THEN Reply(400, "Cannot delete your own account.")
     ELSE IF id \notin DOMAIN user THEN Reply(404, "User not found.")
     ELSE /\ user' = [u \in DOMAIN user \ {id} |-> user[u]]
          /\ secondFactor' =
               [u \in DOMAIN secondFactor \ {id} |-> secondFactor[u]]
          /\ file' = [f \in DOMAIN file \ gone |-> file[f]]
          /\ fileShare' = {s \in fileShare : s.fileId \notin gone}
          /\ last' = Response("deleteUser", adminId, 0, headerToken, 200, "",
                              <<id>>)
  /\ UNCHANGED <<blobs, now, inflight, nextUpload, nextShare, nextSession,
                 issued, content, enrol, charged, ledgerFault>>

----------------------------------------------------------------------------
(* Specifications                                                          *)

\* Step-up tokens a client can present: none, one never issued, one issued.
TokenInputs == {None} \cup {Some(t) : t \in 0..(nextSession - 1)}
FileIdInputs == 0..(nextUpload - 1)
ShareTokenInputs == 0..(nextShare - 1)
ShareIdInputs == 0..(nextShare - 1)

UploadsBy(U, Sizes, Mimes, Names, Datas) ==
  \/ \E u \in U, size \in Sizes, mimeType \in Mimes, name \in Names,
        compress \in BOOLEAN, data \in Datas :
        \E c \in compressFile(size, mimeType) \cup
                  {[threw |-> FALSE, size |-> size, mimeType |-> mimeType]} :
          UploadBegin(u, size, mimeType, name, compress, c, data)
  \/ \E k \in Slots : UploadPut(k)
  \/ \E k \in Slots : UploadCreate(k)
  \/ \E k \in Slots : UploadCharge(k)

DeletesBy(U) ==
  \/ \E u \in U, id \in FileIdInputs, t \in TokenInputs :
        DeleteBegin(u, id, t)
  \/ \E k \in Slots : DeleteBlob(k)
  \/ \E k \in Slots : DeleteRecord(k)
  \/ \E k \in Slots : DeleteCharge(k)

ElevationsBy(U, Codes) == \E u \in U, code \in Codes : StepUp(u, code)

\* codes of setup verification: of the seeds setup hands out, of a seed
\* that is not the user's, and a code that is not six digits
SetupCodeInputs == {[len |-> 6, val |-> "T1"], [len |-> 6, val |-> "T2"],
                    [len |-> 6, val |-> "S2"], [len |-> 4, val |-> "T1"]}

\* codes of login: alice's seed, another seed, her first three backup
\* codes, eight digits that are no code of hers, and five digits
LoginCodeInputs ==
  {[len |-> 6, val |-> "S1"], [len |-> 6, val |-> "S2"],
   [len |-> 8, val |-> "bk-a"], [len |-> 8, val |-> "bk-b"],
   [len |-> 8, val |-> "bk-c"], [len |-> 8, val |-> "bk-z"],
   [len |-> 5, val |-> "S1"]}

LoginsBy(U, Codes, atOnce) ==
  \/ \E u \in U, totpCode \in {None} \cup {Some(c) : c \in Codes} :
        AuthorizeBegin(u, totpCode, atOnce)
  \/ \E k \in Slots : AuthorizeVerify(k)
  \/ \E k \in Slots : AuthorizeConsume(k)
  \/ \E u \in U, code \in Codes : LoginVerify(u, code)

EnrolsBy(U, Codes) ==
  \/ \E u \in U : TwoFactorSetup(u)
  \/ \E u \in U, code \in Codes : SetupVerify(u, code)
  \/ \E k \in Slots : SetupVerifyEnable(k)

SharesBy(U, Targets, Permissions, Expiries) ==
  \/ \E u \in U, id \in FileIdInputs, permission \in Permissions,
        sharedWith \in {None} \cup {Some(w) : w \in Targets},
        expiresAt \in Expiries, isPublic \in BOOLEAN, t \in TokenInputs :
      ShareFile(u, id, sharedWith, permission, expiresAt, isPublic, None, t)
  \/ \E k \in Slots : ShareWrite(k)

RevokesBy(U) ==
  \/ \E u \in U, id \in FileIdInputs, shareId \in ShareIdInputs :
        RevokeShare(u, id, shareId)
  \/ \E u \in U, shareId \in ShareIdInputs : RemoveSharedFile(u, shareId)

ReadsBy(U) ==
  \/ \E u \in U, id \in FileIdInputs : ViewFile(u, id)
  \/ \E u \in U, id \in FileIdInputs : DownloadFile(u, id)
  \/ \E token \in ShareTokenInputs, download \in BOOLEAN :
        SharedGet(token, download)

AdminBy(U, Targets) ==
  \/ \E a \in U, id \in Targets, role \in RoleInputs, t \in TokenInputs :
        ChangeRole(a, id, role, t)
  \/ \E a \in U, id \in Targets, t \in TokenInputs : DeleteUser(a, id, t)

\* What can happen to stored bytes behind the handlers' back.  In a blob,
\* position 1 is in the nonce, 13 and 14 in the tag, 29 in the ciphertext.
BlobEditInputs ==
  {[op |-> "alter", at |-> i] : i \in {1, 13, 14, 29}}
    \cup {[op |-> "cut", at |-> 0], [op |-> "add", at |-> 0]}
    \cup {[op |-> "swap", at |-> q] : q \in 1..MaxFiles}

EnvelopeEditInputs ==
  {[op |-> o, at |-> part] : o \in {"alter", "upper", "nonhex"},
                             part \in 1..3}
    \cup {[op |-> "cut", at |-> 0], [op |-> "add", at |-> 0]}
    \cup {[op |-> "swap", at |-> q] : q \in 1..MaxFiles}

TamperingOf(Ids) ==
  \/ \E id \in Ids, edit \in BlobEditInputs : TamperBlob(id, edit)
  \/ \E id \in Ids, edit \in EnvelopeEditInputs : TamperEnvelope(id, edit)
  \/ ChangeMasterKey

Next ==
  \/ Tick
  \/ ElevationsBy(Users, CodeInputs)
  \/ EnrolsBy(Users, SetupCodeInputs)
  \/ LoginsBy(Users, CodeInputs \cup LoginCodeInputs, MaxInFlight)
  \/ \E size \in SizeInputs, mimeType \in MimeInputs,
        fileName \in NameInputs : ValidateFile(size, mimeType, fileName)
  \/ UploadsBy(Users, SizeInputs, MimeInputs, NameInputs, DataInputs)
  \/ \E u \in Users : StorageStats(u)
  \/ DeletesBy(Users)
  \/ SharesBy(Users, Users, SharePermission \cup {"OWNER"}, ExpiryInputs)
  \/ RevokesBy(Users)
  \/ ReadsBy(Users)
  \/ AdminBy(Users, Users)
  \/ TamperingOf(1..MaxFiles)

Spec == Init /\ [][Next]_vars

\* Enrolment in 2FA: bob, who has no second factor, and alice, who has one
\* enabled, run setup and verify for setup, and elevate with what results.
NextEnrol ==
  \/ EnrolsBy({"alice", "bob"}, SetupCodeInputs)
  \/ ElevationsBy({"alice", "bob"},
                  {[len |-> 6, val |-> "S1"], [len |-> 6, val |-> "T1"]})

SpecEnrol == Init /\ [][NextEnrol]_vars

\* Uploads side by side: alice, with a quota of 100 MiB, uploads files of
\* 70 MiB and asks for her storage statistics.
NextRace ==
  \/ UploadsBy({"alice"}, {70 * MiB}, {<<"text", "plain">>},
               {<<"a", ".", "t">>}, {<<PlainByte(0)>>})
  \/ StorageStats("alice")

SpecRace == Init /\ [][NextRace]_vars

\* The upload pipeline: alice uploads files under and over MAX_FILE_SIZE, of
\* a type that compresses as text, one that compresses as an image and one
\* off the whitelist, with and without compression.
PipelineSizeInputs == {70 * MiB, MAX_FILE_SIZE + 1, 2 * MAX_FILE_SIZE}
PipelineMimeInputs == {<<"text", "plain">>, <<"image", "png">>,
                       <<"application", "x-executable">>}
PipelineDataInputs == {<<PlainByte(0)>>}

NextPipeline ==
  UploadsBy({"alice"}, PipelineSizeInputs, PipelineMimeInputs, NameInputs,
            PipelineDataInputs)

SpecPipeline == Init /\ [][NextPipeline]_vars

\* Validation at its limits: sizes around MAX_FILE_SIZE, types on and off
\* the whitelist, names that are empty, blank, with a separator or "..",
\* and of 255 and 256 characters.
Repeat(c, n) == [i \in 1..n |-> c]

ValidateSizeInputs ==
  {0, 1, MAX_FILE_SIZE - 1, MAX_FILE_SIZE, MAX_FILE_SIZE + 1,
   2 * MAX_FILE_SIZE}

ValidateMimeInputs ==
  {<<"text", "plain">>, <<"image", "png">>, <<"application", "pdf">>,
   <<"application", "x-executable">>, <<"video", "mp4">>}

ValidateNameInputs ==
  {<< >>, <<" ">>, <<"a", ".", "t">>, <<".", ".", "/">>, <<"a", "/", "b">>,
   <<"a", "\\", "b">>, <<"a", ".", ".", "b">>,
   Repeat("a", MAX_NAME_LENGTH), Repeat("a", MAX_NAME_LENGTH + 1),
   <<".", ".">> \o Repeat("a", MAX_NAME_LENGTH)}

NextValidate ==
  \E size \in ValidateSizeInputs, mimeType \in ValidateMimeInputs,
     fileName \in ValidateNameInputs : ValidateFile(size, mimeType, fileName)

SpecValidate == Init /\ [][NextValidate]_vars

\* Login with a second factor.  alice has just enabled 2FA and holds her
\* ten backup codes; bob has no second factor.
InitLogin ==
  /\ user = InitUsers
  /\ secondFactor =
       [InitSecondFactor EXCEPT !["alice"].backupCodes =
          hashBackupCodes(generateBackupCodes(BACKUP_CODES_COUNT))]
  /\ nextSecret = 1
  /\ proved = InitProved
  /\ accepted = << >>
  /\ file = << >>
  /\ blobs = {}
  /\ body = << >>
  /\ MASTER_KEY = getMasterKey(0)
  /\ uploaded = << >>
  /\ fileShare = {}
  /\ stepUpSession = {}
  /\ now = 0
  /\ inflight = [k \in Slots |-> Idle]
  /\ nextUpload = 1
  /\ nextShare = 1
  /\ nextSession = 1
  /\ issued = {}
  /\ charged = [u \in Users |-> 0]
  /\ ledgerFault = FALSE
  /\ last = Response("none", NoUser, 0, None, 0, "", << >>)

\* Logins one at a time.
NextLoginSerial == LoginsBy({"alice", "bob"}, LoginCodeInputs, 1)

SpecLoginSerial == InitLogin /\ [][NextLoginSerial]_vars

\* alice's logins side by side, with two of her backup codes or her TOTP.
NextLogin ==
  LoginsBy({"alice"},
           {[len |-> 8, val |-> "bk-a"], [len |-> 8, val |-> "bk-b"],
            [len |-> 6, val |-> "S1"]}, MaxInFlight)

SpecLogin == InitLogin /\ [][NextLogin]_vars

\* The quota ledger: concurrent uploads and deletes, from the empty vault.
NextLedger ==
  \/ ElevationsBy({"alice"}, {[len |-> 6, val |-> "S1"]})
  \/ UploadsBy({"alice"}, SizeInputs, {<<"text", "plain">>},
               {<<"a", ".", "t">>}, {<<PlainByte(0)>>})
  \/ DeletesBy({"alice"})

SpecLedger == Init /\ [][NextLedger]_vars

\* The state after alice's first upload (40 MiB) has completed.
InitShared ==
  /\ user = [InitUsers EXCEPT !["alice"].usedStorage = 40 * MiB]
  /\ secondFactor = InitSecondFactor
  /\ nextSecret = 1
  /\ proved = InitProved
  /\ accepted = << >>
  /\ MASTER_KEY = getMasterKey(0)
  /\ uploaded = (1 :> Wrote(<<PlainByte(0)>>, 1))
  /\ file = (1 :> [userId |-> "alice", size |-> 40 * MiB, path |-> 1,
                   hash |-> calculateFileHash(uploaded[1].buffer),
                   encryptionKey |-> uploaded[1].encryptionKey])
  /\ blobs = {1}
  /\ body = (1 :> uploaded[1].encryptedData)
  /\ fileShare = {}
  /\ stepUpSession = {}
  /\ now = 0
  /\ inflight = [k \in Slots |-> Idle]
  /\ nextUpload = 2
  /\ nextShare = 1
  /\ nextSession = 1
  /\ issued = {}
  /\ charged = [u \in Users |-> IF u = "alice" THEN 40 * MiB ELSE 0]
  /\ ledgerFault = FALSE
  /\ last = Response("upload", "alice", 1, None, 201, "", << >>)

\* Access control and sharing over a stored file: alice owns it, bob is the
\* user it is shared with, root has no relation to it.
NextAccess ==
  \/ Tick
  \/ ElevationsBy({"alice"}, {[len |-> 6, val |-> "S1"]})
  \/ SharesBy({"alice"}, {"bob"}, SharePermission, ExpiryInputs)
  \/ ReadsBy({"alice", "bob", "root"})
  \/ \E id \in FileIdInputs, t \in TokenInputs : DeleteBegin("bob", id, t)

SpecAccess == InitShared /\ [][NextAccess]_vars

\* The operations gated by step-up authentication.
NextSensitive ==
  \/ Tick
  \/ ElevationsBy({"alice", "root"}, {[len |-> 6, val |-> "S1"],
                                      [len |-> 6, val |-> "S2"]})
  \/ DeletesBy({"alice"})
  \/ SharesBy({"alice"}, {"bob"}, {"READ"}, {None})
  \/ AdminBy({"root"}, {"bob", "root"})

SpecSensitive == InitShared /\ [][NextSensitive]_vars

\* Grants: alice grants bob access to her file, again and again, with either
\* permission, with and without an expiry, while the clock runs.
NextGrant ==
  \/ Tick
  \/ SharesBy({"alice"}, {"bob"}, SharePermission, ExpiryInputs)

SpecGrant == InitShared /\ [][NextGrant]_vars

\* Revocation: alice shares her file with bob and publicly, bob uploads a
\* file of his own, and all three users try both ways of removing a share.
NextRevoke ==
  \/ ElevationsBy({"alice"}, {[len |-> 6, val |-> "S1"]})
  \/ SharesBy({"alice"}, {"bob"}, {"READ"}, {None})
  \/ UploadsBy({"bob"}, {40 * MiB}, {<<"text", "plain">>},
               {<<"a", ".", "t">>}, {<< >>})
  \/ RevokesBy(Users)

SpecRevoke == InitShared /\ [][NextRevoke]_vars

\* Shares coming and going between bob's requests: alice shares her file
\* with bob, with and without an expiry, alice revokes, bob removes, the
\* clock passes the expiry, and bob views and downloads.
NextRecheck ==
  \/ Tick
  \/ SharesBy({"alice"}, {"bob"}, {"READ"}, ExpiryInputs)
  \/ RevokesBy({"alice", "bob"})
  \/ ReadsBy({"bob"})

SpecRecheck == InitShared /\ [][NextRecheck]_vars

\* Elevation: every user tries every kind of code, at every time, and alice
\* spends what she gets on deleting her file.
NextElevate ==
  \/ Tick
  \/ ElevationsBy(Users, CodeInputs)
  \/ DeletesBy({"alice"})

SpecElevate == InitShared /\ [][NextElevate]_vars

\* Stored bytes from upload to download: alice has a file stored and
\* uploads a second, what is stored for the second may be altered (the
\* first is there to be put in its place), alice and bob ask for the bytes.
NextCrypto ==
  \/ UploadsBy({"alice"}, {40 * MiB}, {<<"text", "plain">>},
               {<<"a", ".", "t">>}, DataInputs)
  \/ TamperingOf({2})
  \/ \E u \in {"alice", "bob"}, id \in FileIdInputs : DownloadFile(u, id)

SpecCrypto == InitShared /\ [][NextCrypto]_vars

----------------------------------------------------------------------------
(* checkStorageQuota over the rows the User table can hold                 *)

\* storageQuota and usedStorage are INTEGER NOT NULL columns: a quota of 0, a
\* lowered quota and a counter above the quota are rows the table can hold.
QuotaInputs == {0, 50 * MiB, DEFAULT_STORAGE_QUOTA}
UsedInputs == {0, 50 * MiB, 120 * MiB}
ByteInputs == {0, 1, 50 * MiB, DEFAULT_STORAGE_QUOTA + 1}
Callers == {"alice", "bob", "ghost"}     \* ghost has no User row

InitQuota ==
  /\ \E qa \in QuotaInputs, ua \in UsedInputs, qb \in QuotaInputs,
        ub \in UsedInputs :
        user = [InitUsers EXCEPT !["alice"].storageQuota = qa,
                                 !["alice"].usedStorage = ua,
                                 !["bob"].storageQuota = qb,
                                 !["bob"].usedStorage = ub]
  /\ secondFactor = InitSecondFactor
  /\ nextSecret = 1
  /\ proved = InitProved
  /\ accepted = << >>
  /\ file = << >>
  /\ blobs = {}
  /\ body = << >>
  /\ MASTER_KEY = getMasterKey(0)
  /\ uploaded = << >>
  /\ fileShare = {}
  /\ stepUpSession = {}
  /\ now = 0
  /\ inflight = [k \in Slots |-> Idle]
  /\ nextUpload = 1
  /\ nextShare = 1
  /\ nextSession = 1
  /\ issued = {}
  /\ charged = [u \in Users |-> user[u].usedStorage]
  /\ ledgerFault = FALSE
  /\ last = Response("none", NoUser, 0, None, 0, "", << >>)

\* One call of checkStorageQuota(u, fileSize): what it returned, or that it
\* threw.
CheckQuota(u, fileSize) ==
  /\ last' = IF checkStorageQuotaThrows(u)
             THEN Response("checkStorageQuota", u, 0, None, 0,
                           "User not found", << >>)
             ELSE Response("checkStorageQuota", u, 0, None, 0, "",
                           <<checkStorageQuota(u, fileSize)>>)
  /\ UNCHANGED <<db, now, inflight, nextUpload, nextShare, nextSession,
                 issued, content, enrol, charged, ledgerFault>>

NextQuota == \E u \in Callers, fileSize \in ByteInputs : CheckQuota(u, fileSize)

SpecQuota == InitQuota /\ [][NextQuota]_vars

----------------------------------------------------------------------------
(* Step-up authentication                                                  *)

\* check(u, token) of the specification: a session with that token exists,
\* is u's, and is not past its expiry.
StepUpHeld(u, token) ==
  \E s \in stepUpSession :
    Some(s.token) = token /\ s.userId = u /\ s.expiresAt >= now

StepUpErrors == {"Step-up authentication required.",
                 "Invalid or expired step-up token.",
                 "Step-up authentication required for public sharing."}

\* The request handled by this step was refused for want of step-up.
StepUpRefused ==
  /\ last' # last
  /\ last'.status = 403
  /\ last'.error \in StepUpErrors

\* The request handled by this step presented a token that check accepts.
StepUpPresented(op) ==
  /\ last'.op = op
  /\ StepUpHeld(last'.user, last'.token)

SensitiveStep ==
  \* a file delete is admitted only with step-up ...
  /\ \A k \in Slots :
       inflight[k].kind # "delete" /\ inflight'[k].kind = "delete" =>
         StepUpPresented("deleteFile") /\ inflight'[k].user = last'.user
  \* ... and blobs, records and the counter go only in an admitted delete
  /\ blobs' # blobs =>
       \E k \in Slots : /\ inflight[k].kind = "delete"
                        /\ blobs' = blobs \ {inflight[k].path}
  /\ DOMAIN file' # DOMAIN file =>
       \/ \E k \in Slots : /\ inflight[k].kind = "delete"
                           /\ DOMAIN file' = DOMAIN file \ {inflight[k].fileId}
       \/ StepUpPresented("deleteUser")
  /\ (\E u \in DOMAIN user \cap DOMAIN user' :
        user'[u].usedStorage # user[u].usedStorage) =>
       \E k \in Slots : inflight[k].kind = "delete"
  \* public share creation
  /\ (\E s \in fileShare' \ fileShare : s.token # None) =>
       StepUpPresented("share")
  \* role change
  /\ (\E u \in DOMAIN user \cap DOMAIN user' : user'[u].role # user[u].role)
       => StepUpPresented("changeRole")
  \* user deletion
  /\ DOMAIN user' # DOMAIN user => StepUpPresented("deleteUser")
  \* a refused request changes nothing
  /\ StepUpRefused => UNCHANGED <<file, blobs, fileShare, user, inflight>>

\* C1: file deletion (blob, record, counter), public share creation, role
\* change and user deletion happen only in a request whose step-up token
\* check accepts for the requester, and a request refused for a missing,
\* unknown, foreign or expired token leaves files, blobs, shares, users and
\* usedStorage as they were.
SensitiveOnlyWithStepUp == [][SensitiveStep]_vars

\* C1 witness: alice asked for a public share with her own session's token
\* after it expired, and was refused.
ExpiredTokenRefusedShare ==
  /\ last.op = "share" /\ last.status = 403
  /\ last.error = "Invalid or expired step-up token."
  /\ \E s \in issued : /\ Some(s.token) = last.token
                       /\ s.userId = last.user
                       /\ s.expiresAt < now
  /\ 1 \in DOMAIN file /\ fileShare = {}

\* C2: verifyStepUpToken(u, t) is true exactly when a session with token t
\* exists, is u's and is not past its expiry; called on u's own expired
\* session it deletes that session (and nothing else) and is false; in every
\* other case it leaves the table alone.
StepUpCheckExact ==
  \A u \in Users, t \in TokenInputs :
    LET r == verifyStepUpToken(u, t)
        expired == {s \in stepUpSession : /\ Some(s.token) = t
                                          /\ s.userId = u
                                          /\ s.expiresAt < now}
    IN /\ r.valid <=> StepUpHeld(u, t)
       /\ expired # {} => ~r.valid /\ r.sessions = stepUpSession \ expired
       /\ expired = {} => r.sessions = stepUpSession

\* C2 witness: a delete request presented the requester's own expired
\* token; the check said no and the session row is gone.
ExpiredSessionDeleted ==
  /\ last.op = "deleteFile" /\ last.status = 403
  /\ \E s \in issued \ stepUpSession : /\ Some(s.token) = last.token
                                       /\ s.userId = last.user
                                       /\ s.expiresAt < now

----------------------------------------------------------------------------
(* Access control and sharing                                              *)

\* A private share of the file to u is in force: no expiry, or an expiry in
\* the future.
PrivateShareInForce(u, id, permissions) ==
  \E s \in fileShare :
    /\ s.fileId = id /\ s.token = None /\ s.sharedWith = u
    /\ s.permission \in permissions
    /\ (s.expiresAt = None \/ s.expiresAt[1] > now)

\* The request handled by this step is a file delete by someone who is not
\* the file's owner.
DeleteByNonOwner ==
  /\ last' # last
  /\ last'.op = "deleteFile"
  /\ last'.file \in DOMAIN file
  /\ file[last'.file].userId # last'.user

\* C3: canDeleteFile is true only for the owner, and a delete request by
\* anyone else, whatever shares they hold, is answered 403 and leaves the
\* file record, the blob and usedStorage as they were.
OnlyOwnerDeletes ==
  /\ [](\A u \in Users, id \in FileIdInputs :
          canDeleteFile(u, id) => id \in DOMAIN file /\ file[id].userId = u)
  /\ [][DeleteByNonOwner =>
          /\ last'.status = 403 /\ last'.error = "Permission denied."
          /\ UNCHANGED <<file, blobs, user, inflight>>]_vars

\* C3 witness: bob, holding a READ_WRITE share in force, asked to delete the
\* file and was refused; the file and its blob are there.
RecipientDeleteRefused ==
  /\ last.op = "deleteFile" /\ last.user = "bob" /\ last.status = 403
  /\ PrivateShareInForce("bob", last.file, {"READ_WRITE"})
  /\ last.file \in DOMAIN file /\ file[last.file].path \in blobs

\* C4: canViewFile(u, id) is true exactly when the file exists and u owns it
\* or a private share of it to u is in force; expired private shares and
\* public shares do not count.
ViewExact ==
  \A u \in Users, id \in FileIdInputs :
    canViewFile(u, id) <=>
      /\ id \in DOMAIN file
      /\ \/ file[id].userId = u
         \/ PrivateShareInForce(u, id, SharePermission)

\* C4 witness: bob's private share has expired and a public share of the
\* same file exists; bob asked to view the file and was refused.
ExpiredShareViewRefused ==
  /\ last.op = "view" /\ last.user = "bob" /\ last.status = 403
  /\ \E s \in fileShare : /\ s.fileId = last.file /\ s.sharedWith = "bob"
                          /\ s.expiresAt # None /\ s.expiresAt[1] <= now
  /\ \E s \in fileShare : s.fileId = last.file /\ s.token # None
  /\ ~canViewFile("bob", last.file)

\* C5 (as claimed): bytes are returned with attachment disposition on the
\* authenticated download endpoint only to the owner or to the holder of a
\* READ_WRITE share in force.
ReadShareNeverDownloads ==
  [][(/\ last' # last
      /\ last'.op = "download"
      /\ last'.status = 200
      /\ last'.detail # << >> /\ last'.detail[1] = "attachment")
     => \/ file[last'.file].userId = last'.user
        \/ PrivateShareInForce(last'.user, last'.file, {"READ_WRITE"})]_vars

\* The share rows a token names.
SharesOfToken(token) == {s \in fileShare : s.token = Some(token)}

\* C6: validateShareToken(token) returns the share's fileId, sharedBy and
\* permission exactly when a share with that token exists and its expiresAt
\* is null or not in the past; for an expired share it returns what it
\* returns for a token that was never issued; a lookup on the public
\* endpoint leaves the FileShare rows as they were.
TokenResolution ==
  /\ [](\A token \in ShareTokenInputs :
          LET r == validateShareToken(token)
              live == {s \in SharesOfToken(token) :
                         s.expiresAt = None \/ s.expiresAt[1] >= now}
          IN /\ r # None <=> live # {}
             /\ r # None =>
                  \E s \in live : r = Some([fileId |-> s.fileId,
                                            sharedBy |-> s.sharedBy,
                                            permission |-> s.permission])
             /\ live = {} => r = validateShareToken(0))
  /\ [][last' # last /\ last'.op = "shared" => UNCHANGED fileShare]_vars

\* C6 witness: the public endpoint answered 404 for the token of a share
\* that has expired, and the share's row is still there.
ExpiredTokenNotFound ==
  /\ last.op = "shared" /\ last.status = 404
  /\ last.error = "Invalid or expired share token."
  /\ \E s \in fileShare : /\ s.token # None /\ s.token = last.token
                          /\ s.expiresAt # None /\ s.expiresAt[1] < now

----------------------------------------------------------------------------
(* Upload ordering and the quota ledger                                    *)

\* usedStorage of u goes up in this step.
Incremented(u) ==
  /\ u \in DOMAIN user /\ u \in DOMAIN user'
  /\ user'[u].usedStorage > user[u].usedStorage

\* The upload in slot k ends in this step without having reached the
\* counter update: its blob write or its record creation has thrown.
UploadFailsEarly(k) ==
  /\ inflight[k].kind = "upload"
  /\ inflight[k].pc \in {"put", "create"}
  /\ inflight'[k] = Idle

\* C7: usedStorage goes up only in the last step of an upload whose blob
\* write and record creation have both succeeded, and by the stored size; an
\* upload whose blob write or record creation fails leaves usedStorage as it
\* was.
ChargeAfterBlobAndRecord ==
  /\ [](\A k \in Slots :
          inflight[k].kind = "upload" /\ inflight[k].pc = "create"
            => inflight[k].path \in blobs)
  /\ [][/\ \A u \in Users :
             Incremented(u) =>
               \E k \in Slots :
                 /\ inflight[k].kind = "upload" /\ inflight[k].user = u
                 /\ inflight[k].pc = "charge"
                 /\ inflight'[k] = Idle
                 /\ user'[u].usedStorage =
                      user[u].usedStorage + inflight[k].size
                 \* with no delete ever possible, both are still there
                 /\ issued = {} =>
                      /\ inflight[k].path \in blobs
                      /\ inflight[k].fileId \in DOMAIN file
                      /\ file[inflight[k].fileId].size = inflight[k].size
        /\ \A k \in Slots : UploadFailsEarly(k) => UNCHANGED user]_vars

\* C7 witness: the blob of alice's first upload was written, the record
\* creation threw, and her usedStorage is still 0.
RecordCreationFailedUncharged ==
  /\ last.op = "upload" /\ last.status = 500
  /\ blobs = {1} /\ file = << >> /\ issued = {}
  /\ \A k \in Slots : inflight[k] = Idle
  /\ user["alice"].usedStorage = 0

\* The quota the check of u's upload works with.
QuotaOf(u) == IF user[u].storageQuota = 0 THEN DEFAULT_STORAGE_QUOTA
              ELSE user[u].storageQuota

\* C8: the quota check is made on a file that has passed validation, with the
\* length the compression step left (the length later stored as File.size
\* and added to usedStorage), and before the blob is written; an upload that
\* fails it writes no blob, creates no record and leaves usedStorage alone.
QuotaCheckPlacement ==
  [][/\ (last' # last /\ last'.op = "upload" /\ last'.status = 413) =>
          /\ validateFile(last'.detail.size, last'.detail.mimeType,
                          last'.detail.name) = ""
          /\ last'.detail.required = last'.detail.size
          /\ last'.detail.available =
               QuotaOf(last'.user) - user[last'.user].usedStorage
          /\ last'.detail.required > last'.detail.available
          /\ UNCHANGED <<blobs, file, user, inflight>>
     /\ \A k \in Slots :
          inflight[k] = Idle /\ inflight'[k].kind = "upload" =>
            /\ inflight'[k].pc = "put"
            /\ inflight'[k].path \notin blobs'
            /\ inflight'[k].fileId \notin DOMAIN file'
            /\ inflight'[k].quotaCheck.success
            /\ inflight'[k].quotaCheck.required = inflight'[k].size
            /\ inflight'[k].quotaCheck.required <=
                 QuotaOf(inflight'[k].user)
                   - user[inflight'[k].user].usedStorage
     /\ \A k \in Slots :
          inflight[k].kind = "upload" =>
            /\ inflight[k].fileId \in DOMAIN file' \ DOMAIN file =>
                 file'[inflight[k].fileId].size =
                   inflight[k].quotaCheck.required
            /\ Incremented(inflight[k].user) /\ inflight'[k] = Idle =>
                 user'[inflight[k].user].usedStorage =
                   user[inflight[k].user].usedStorage
                     + inflight[k].quotaCheck.required]_vars

\* C8 witness: with 70 MiB used, alice's 70 MiB text upload was compressed
\* to 35 MiB, passed validation and was refused by the quota check on those
\* 35 MiB; nothing was written.
CompressedUploadOverQuota ==
  /\ last.op = "upload" /\ last.status = 413
  /\ last.detail.required = 35 * MiB
  /\ last.detail.available = 30 * MiB
  /\ blobs = {1} /\ DOMAIN file = {1}
  /\ user["alice"].usedStorage = 70 * MiB

\* C9: usedStorage is its initial value (0) plus the sum of the deltas
\* applied so far, whatever the interleaving of the uploads and deletes.
NoLostUpdate ==
  \A u \in DOMAIN user : user[u].usedStorage = charged[u]

\* C9 witness: an upload is about to apply its delta, and the usedStorage it
\* read at its quota check is no longer the stored value, because another
\* request of the same user has applied a delta in between.
StaleReadBeforeCharge ==
  \E k \in Slots :
    /\ inflight[k].kind = "upload" /\ inflight[k].pc = "charge"
    /\ inflight[k].quotaCheck.used # user[inflight[k].user].usedStorage

\* No upload or delete request is in flight.
Quiescent == \A k \in Slots : inflight[k] = Idle

LedgerMatchesFiles ==
  \A u \in DOMAIN user : user[u].usedStorage = calculateUserStorage(u)

----------------------------------------------------------------------------
(* checkStorageQuota                                                       *)

\* C11 (as claimed): a call for a user that exists reports available =
\* storageQuota - usedStorage and success exactly when available >= the
\* bytes asked for, whatever the stored quota and counter; a call for an
\* unknown user throws.
QuotaCheckAsClaimed ==
  last.op = "checkStorageQuota" =>
    IF last.user \notin DOMAIN user
    THEN last.error = "User not found"
    ELSE LET r == last.detail[1]
             available == user[last.user].storageQuota
                            - user[last.user].usedStorage
         IN /\ last.error = ""
            /\ r.available = available
            /\ r.success <=> available >= r.required

----------------------------------------------------------------------------
(* Stored bytes                                                            *)

\* What is stored for a file is what its upload wrote, and is decrypted
\* with the key its upload used.
Intact(id) ==
  /\ file[id].path \in blobs
  /\ body[file[id].path] = uploaded[id].encryptedData
  /\ file[id].encryptionKey = uploaded[id].encryptionKey
  /\ MASTER_KEY = uploaded[id].masterKey

\* A download of an existing file by a user who may view it.
AuthorisedDownload ==
  /\ last' # last /\ last'.op = "download"
  /\ last'.file \in DOMAIN file
  /\ canViewFile(last'.user, last'.file)

\* C12: the blob an upload writes is 12 bytes of nonce, 16 of tag and the
\* ciphertext, as long as the buffer; the hash in the row is that of the
\* buffer, not of the ciphertext; and a download by an authorised user, of a
\* file whose blob, envelope and master key are what the upload left,
\* answers 200 with exactly the buffer that was hashed and encrypted.
DownloadRoundTrip ==
  /\ [](\A id \in DOMAIN file :
         LET w == uploaded[id] IN
         /\ file[id].hash = calculateFileHash(w.buffer)
         /\ Len(w.encryptedData) = 12 + 16 + Len(w.buffer)
         /\ decryptFile(Slice(w.encryptedData, 28, Len(w.encryptedData)),
                        decryptFileKey(w.encryptionKey, w.masterKey).buffer,
                        Slice(w.encryptedData, 0, 12),
                        Slice(w.encryptedData, 12, 28))
              = [threw |-> FALSE, buffer |-> w.buffer])
  /\ [][AuthorisedDownload /\ Intact(last'.file)
          => /\ last'.status = 200
             /\ last'.detail = <<"attachment", uploaded[last'.file].buffer>>
       ]_vars

\* C12 witness: alice downloaded the two-byte file she uploaded in this run
\* and got its two bytes.
UploadedBytesReturned ==
  /\ last.op = "download" /\ last.status = 200 /\ last.file = 2
  /\ 2 \in DOMAIN file /\ Intact(2)
  /\ last.detail = <<"attachment",
                     <<[kind |-> "plain", v |-> 1],
                       [kind |-> "plain", v |-> 0]>>>>

\* The three buffers decryptFileKey decodes from an envelope (none when it
\* does not have three parts).
Decoded(e) == IF Len(e) = 3 THEN [p \in 1..3 |-> fromHex(e[p])] ELSE << >>

BlobDiffers(id) ==
  file[id].path \in blobs /\ body[file[id].path] # uploaded[id].encryptedData

KeyDiffers(id) == MASTER_KEY # uploaded[id].masterKey

DownloadRefused == last'.status = 500 /\ last'.detail = << >>

NoOtherBytes ==
  last'.status = 200 => last'.detail[2] = uploaded[last'.file].buffer

StoredIsUploadOf(id, j) ==
  /\ body[file[id].path] = uploaded[j].encryptedData
  /\ Decoded(file[id].encryptionKey) = Decoded(uploaded[j].encryptionKey)
  /\ MASTER_KEY = uploaded[j].masterKey

----------------------------------------------------------------------------
(* Step-up sessions in use                                                 *)

Expired(s) == s.expiresAt < now

\* C14: a check that returns true leaves the StepUpSession table as it was;
\* every session still in the table and not expired is accepted for its
\* owner, however often it has been used; no step other than the deletion of
\* its owner removes a session that has not expired; and a session that has
\* expired or is gone from the table is accepted for nobody, then and ever
\* after.
StepUpNotConsumed ==
  /\ [](\A s \in issued :
         /\ \A u \in Users :
              verifyStepUpToken(u, Some(s.token)).valid
                => verifyStepUpToken(u, Some(s.token)).sessions = stepUpSession
         /\ s \in stepUpSession /\ ~Expired(s)
              => verifyStepUpToken(s.userId, Some(s.token)).valid
         /\ s \notin stepUpSession \/ Expired(s)
              => \A u \in Users : ~verifyStepUpToken(u, Some(s.token)).valid)
  /\ [][\A s \in issued :
          /\ s \in stepUpSession /\ s.expiresAt >= now'
               /\ s.userId \in DOMAIN user'
               => s \in stepUpSession'
          /\ s \notin stepUpSession \/ Expired(s)
               => s \notin stepUpSession' \/ s.expiresAt < now']_vars

\* C14 witness: alice's one session has authorised a share, then a second
\* share, and is still in the table and still accepted.
OneElevationTwoShares ==
  /\ Cardinality(issued) = 1 /\ stepUpSession = issued
  /\ Cardinality(fileShare) = 2
  /\ last.op = "share" /\ last.status \in {200, 201}
  /\ \A s \in issued :
       /\ s.userId = "alice" /\ last.token = Some(s.token)
       /\ verifyStepUpToken("alice", Some(s.token)).valid

----------------------------------------------------------------------------
(* Elevation                                                               *)

\* The code is the current TOTP code of u's enabled second factor, or one of
\* u's unused backup codes.
CodeVerifiesFor(u, code) ==
  /\ u \in DOMAIN secondFactor
  /\ secondFactor[u].enabled /\ secondFactor[u].secret # None
  /\ \/ code.len = 6 /\ code.val = secondFactor[u].secret[1].enc
     \/ /\ code.len = 8
        /\ \E i \in 1..Len(secondFactor[u].backupCodes) :
              secondFactor[u].backupCodes[i].code = code.val

\* C15: a step that adds a StepUpSession row is an elevate request whose
\* code verifies for the requester; it adds one row, which belongs to the
\* requester, carries the token returned and expires 15 minutes after the
\* time of the request; an elevate request whose code does not verify is
\* answered 401 without a token and adds no row.
ElevateOnlyOnVerifiedCode ==
  /\ [][stepUpSession' \ stepUpSession # {} \/ issued' # issued
         => /\ last'.op = "stepUp" /\ last'.status = 200
            /\ CodeVerifiesFor(last'.user, last'.detail[1])
            /\ \E s \in issued' :
                 /\ issued' = issued \cup {s} /\ s \notin issued
                 /\ stepUpSession' \ stepUpSession = {s}
                 /\ s.userId = last'.user
                 /\ last'.token = Some(s.token)
                 /\ s.expiresAt = now + 15]_vars
  /\ [][last' # last /\ last'.op = "stepUp"
           /\ ~CodeVerifiesFor(last'.user, last'.detail[1])
         => /\ last'.status = 401 /\ last'.token = None
            /\ stepUpSession' = stepUpSession /\ issued' = issued]_vars

\* C15 witness: at minute 15 alice elevated with her backup code; the
\* session is hers and expires at minute 30.
BackupCodeElevation ==
  /\ last.op = "stepUp" /\ last.status = 200 /\ last.user = "alice"
  /\ last.detail = <<[len |-> 8, val |-> "bk-1"]>>
  /\ secondFactor["alice"].backupCodes = << >>
  /\ \E s \in stepUpSession :
       /\ s.userId = "alice" /\ last.token = Some(s.token)
       /\ s.expiresAt = 30

----------------------------------------------------------------------------
(* Private shares                                                          *)

ActivePrivateShares(fileId, userId) ==
  {s \in fileShare : /\ s.fileId = fileId /\ s.sharedWith = userId
                     /\ s.token = None /\ ActiveShare(s)}

\* C16 (as claimed): at any time there is at most one active private share
\* per file and target user, and a grant to a target that has an active
\* share of the file adds no row.
OneActiveSharePerTarget ==
  /\ [](\A id \in FileIdInputs, u \in Users :
         Cardinality(ActivePrivateShares(id, u)) <= 1)
  /\ [][\A s \in fileShare' :
          s.token = None /\ (\A t \in fileShare : t.id # s.id)
            => ActivePrivateShares(s.fileId, s.sharedWith) = {}]_vars

----------------------------------------------------------------------------
(* Removal of shares                                                       *)

RemovalRequest ==
  last' # last /\ last'.op \in {"revokeShare", "removeShared"}

----------------------------------------------------------------------------
(* Enrolment in 2FA                                                        *)

\* Setup verification k has just done its enabling write for user u.
EnablingWrite(k, u) ==
  /\ inflight[k].kind = "setupVerify" /\ inflight[k].user = u
  /\ inflight'[k] = Idle
  /\ last'.status = 200

\* C18: whenever a SecondFactor is enabled, the seed it stores is one for
\* which its user submitted a valid code in a setup verification.
EnabledSecretWasProved ==
  \A u \in DOMAIN secondFactor :
    secondFactor[u].enabled =>
      /\ secondFactor[u].secret # None
      /\ <<u, decryptSecret(secondFactor[u].secret[1])>> \in proved

\* C19: a SecondFactor that is enabled has a secret, and the write that
\* enables it (every enabling write of a setup verification, and every
\* step after which a row is enabled that was not before) leaves a
\* non-empty sequence of hashed backup codes in the row.
EnabledHasSecretAndCodes ==
  /\ [](\A u \in DOMAIN secondFactor :
          secondFactor[u].enabled => secondFactor[u].secret # None)
  /\ [][\A u \in DOMAIN secondFactor' :
          /\ secondFactor'[u].enabled
          /\ \/ u \notin DOMAIN secondFactor
             \/ ~secondFactor[u].enabled
             \/ \E k \in Slots : EnablingWrite(k, u)
          => /\ secondFactor'[u].backupCodes # << >>
             /\ \E k \in Slots : EnablingWrite(k, u)
       ]_vars

\* C19 witness: bob, who had no second factor, has just enabled one, and
\* the row holds its seed and the ten hashed codes.
BobEnabledWithCodes ==
  /\ last.op = "setupVerify" /\ last.user = "bob" /\ last.status = 200
  /\ "bob" \in DOMAIN secondFactor
  /\ secondFactor["bob"].enabled
  /\ secondFactor["bob"].secret # None
  /\ Len(secondFactor["bob"].backupCodes) = BACKUP_CODES_COUNT

\* C20: a setup request by a user whose SecondFactor is enabled is answered
\* with an error and leaves the user's row as it was.
SetupWhileEnabledRejected ==
  [][\A u \in DOMAIN secondFactor :
       secondFactor[u].enabled /\ last' # last /\ last'.op = "setup"
         /\ last'.user = u
       => /\ last'.status # 200
          /\ u \in DOMAIN secondFactor'
          /\ secondFactor'[u] = secondFactor[u]
    ]_vars

----------------------------------------------------------------------------
(* Backup codes at login                                                   *)

\* Login k has just stored what is left of the codes and was let in.
ConsumingWrite(k) ==
  /\ inflight[k].kind = "authorize" /\ inflight[k].pc = "consume"
  /\ inflight'[k] = Idle
  /\ last'.status = 200

\* The places of the stored hashes that match the code.
MatchingAt(stored, code) ==
  {i \in 1..Len(stored) : stored[i].code = code.val}

WasAccepted(u, code) ==
  \E i \in 1..Len(accepted) : accepted[i] = <<u, code.val>>

\* C21: with logins one at a time, the write of a login that accepted a
\* backup code removes from the stored list the first hash that matches
\* the code and nothing else, keeping the order of the rest, after which
\* the code matches no stored hash; and a login that presents a backup code
\* accepted before is refused.
BackupCodeUsedOnce ==
  [][/\ \A k \in Slots :
          ConsumingWrite(k) =>
            LET u == inflight[k].user
                code == inflight[k].grant[1].code
                stored == secondFactor[u].backupCodes
                left == secondFactor'[u].backupCodes
                first == CHOOSE i \in MatchingAt(stored, code) :
                           \A j \in MatchingAt(stored, code) : i <= j
            IN /\ MatchingAt(stored, code) # {}
               /\ Len(left) = Len(stored) - 1
               /\ \A j \in 1..Len(left) :
                     left[j] = IF j < first THEN stored[j] ELSE stored[j + 1]
               /\ MatchingAt(left, code) = {}
     /\ \A k \in Slots :
          /\ inflight[k].kind = "authorize" /\ inflight[k].pc = "verify"
          /\ inflight'[k] # inflight[k]
          /\ inflight[k].grant[1].code.len = 8
          /\ WasAccepted(inflight[k].user, inflight[k].grant[1].code)
          => inflight'[k] = Idle /\ last'.status = 401
    ]_vars

\* C21 witness: alice logged in with her second backup code, the first
\* and the third are still the first two of the nine that are left, and
\* her next login with the second code has just been refused.
SecondCodeRefusedAgain ==
  /\ WasAccepted("alice", [len |-> 8, val |-> "bk-b"])
  /\ last.op = "authorize" /\ last.user = "alice" /\ last.status = 401
  /\ last.detail = <<Some([len |-> 8, val |-> "bk-b"])>>
  /\ Len(secondFactor["alice"].backupCodes) = BACKUP_CODES_COUNT - 1
  /\ secondFactor["alice"].backupCodes[1].code = "bk-a"
  /\ secondFactor["alice"].backupCodes[2].code = "bk-c"

\* Login k has just compared its backup code with the stored list and goes
\* on to its update.
ComparingRead(k) ==
  /\ inflight[k].kind = "authorize" /\ inflight[k].pc = "verify"
  /\ inflight'[k].kind = "authorize" /\ inflight'[k].pc = "consume"

TimesAccepted(u, val) ==
  Cardinality({i \in 1..Len(accepted) : accepted[i] = <<u, val>>})

AllFinished == \A k \in Slots : inflight[k] = Idle

\* C27: with logins side by side, the comparison of a backup code with the
\* stored list writes nothing and leaves the request holding the list that
\* was read less the first matching hash; the update that follows stores
\* the held list and lets the login in whatever the stored list has become
\* in between, also when the code is no longer in it.
ConsumptionReadsThenWrites ==
  [][/\ \A k \in Slots :
          ComparingRead(k) =>
            LET u == inflight[k].user
                code == inflight[k].grant[1].code
                stored == secondFactor[u].backupCodes
                first == CHOOSE i \in MatchingAt(stored, code) :
                           \A j \in MatchingAt(stored, code) : i <= j
            IN /\ MatchingAt(stored, code) # {}
               /\ secondFactor' = secondFactor
               /\ accepted' = accepted
               /\ inflight'[k].grant[1].backupCodes = RemoveAt(stored, first)
     /\ \A k \in Slots :
          /\ inflight[k].kind = "authorize" /\ inflight[k].pc = "consume"
          /\ inflight'[k] # inflight[k]
          /\ inflight[k].user \in DOMAIN secondFactor
          => LET u == inflight[k].user
                 code == inflight[k].grant[1].code
             IN /\ inflight'[k] = Idle
                /\ last'.status = 200
                /\ secondFactor'[u].backupCodes =
                     inflight[k].grant[1].backupCodes
                /\ accepted' = Append(accepted, <<u, code.val>>)
    ]_vars

\* C27 witness: two logins of alice with her first backup code have both
\* been accepted, and one code is gone from her list.
SameCodeAcceptedTwice ==
  /\ AllFinished
  /\ TimesAccepted("alice", "bk-a") = 2
  /\ Len(secondFactor["alice"].backupCodes) = BACKUP_CODES_COUNT - 1
  /\ MatchingAt(secondFactor["alice"].backupCodes,
                [len |-> 8, val |-> "bk-a"]) = {}
  /\ last.op = "authorize" /\ last.status = 200

\* C29: for a user with 2FA enabled, a login verification that presents
\* eight digits matching a stored backup code is accepted and leaves the
\* code out of the stored list, at the verify endpoint as well as in the
\* credentials provider.
BackupCodeAcceptedEverywhere ==
  [][/\ \A u \in {"alice", "bob"}, code \in LoginCodeInputs :
          /\ LoginVerify(u, code)
          /\ code.len = 8
          /\ u \in DOMAIN secondFactor /\ secondFactor[u].enabled
          /\ MatchingAt(secondFactor[u].backupCodes, code) # {}
          => /\ last'.status = 200
             /\ MatchingAt(secondFactor'[u].backupCodes, code) = {}
     /\ \A k \in Slots :
          /\ inflight[k].kind = "authorize" /\ inflight[k].pc = "verify"
          /\ inflight'[k] # inflight[k]
          /\ inflight[k].grant[1].code.len = 8
          /\ MatchingAt(secondFactor[inflight[k].user].backupCodes,
                        inflight[k].grant[1].code) # {}
          => inflight'[k].pc = "consume"
     /\ \A k \in Slots :
          ConsumingWrite(k) =>
            MatchingAt(secondFactor'[inflight[k].user].backupCodes,
                       inflight[k].grant[1].code) = {}
    ]_vars

\* C30: once no login is under way, no backup code that was accepted
\* matches a hash of the user's stored list.
AcceptedCodesAbsent ==
  AllFinished =>
    \A i \in 1..Len(accepted) :
       MatchingAt(secondFactor[accepted[i][1]].backupCodes,
                  [len |-> 8, val |-> accepted[i][2]]) = {}

----------------------------------------------------------------------------
(* Validation                                                              *)

MimeAllowed(mimeType) ==
  \/ mimeType[1] \in {"image", "text"}
  \/ mimeType \in AllowedExactMime

NameRefused(fileName) ==
  \/ fileName = << >>
  \/ \A i \in 1..Len(fileName) : fileName[i] = " "
  \/ \E i \in 1..Len(fileName) : fileName[i] \in {"/", "\\"}
  \/ \E i \in 1..(Len(fileName) - 1) :
       fileName[i] = "." /\ fileName[i + 1] = "."
  \/ Len(fileName) > 255

\* C22: validateFile answers with the size check's reason when the size is
\* above 100 MiB, otherwise with the MIME check's reason when the type is
\* not on the whitelist, otherwise with the name check's reason when the
\* name is empty, blank, holds '/', '\' or '..', or is longer than 255
\* characters, and succeeds otherwise; 100 MiB and 255 characters pass,
\* 100 MiB + 1 and 256 characters do not.
ValidateFirstFailure ==
  last.op = "validateFile" =>
    LET size == last.detail[1]
        mimeType == last.detail[2]
        fileName == last.detail[3]
    IN
    /\ size > 100 * MiB => last.error = validateFileSize(100 * MiB + 1)
    /\ size <= 100 * MiB /\ ~MimeAllowed(mimeType)
         => last.error = validateMimeType(<<"video", "mp4">>)
    /\ size <= 100 * MiB /\ MimeAllowed(mimeType) /\ NameRefused(fileName)
         => last.error = validateFileName(fileName) /\ last.error # ""
    /\ last.error = "" <=>
         size <= 100 * MiB /\ MimeAllowed(mimeType) /\ ~NameRefused(fileName)
    /\ validateFileSize(100 * MiB + 1) # ""
    /\ validateMimeType(<<"video", "mp4">>) # ""
    /\ validateFileSize(100 * MiB + 1) # validateMimeType(<<"video", "mp4">>)
    /\ validateFileName(<<"a">>) = ""
    /\ validateFileName(Repeat("a", 255)) = ""
    /\ validateFileName(Repeat("a", 256)) \notin
         {"", validateFileSize(100 * MiB + 1),
          validateMimeType(<<"video", "mp4">>)}

\* C22 witness: a file one byte over the limit, of a type off the
\* whitelist and with a name of 256 characters was refused for its size.
OversizeReportedFirst ==
  /\ last.op = "validateFile"
  /\ last.detail = <<100 * MiB + 1, <<"video", "mp4">>, Repeat("a", 256)>>
  /\ last.error = validateFileSize(last.detail[1])
  /\ last.error # ""

----------------------------------------------------------------------------
(* Blobs and File rows                                                     *)

\* C23: in every quiescent state each File row's blob is in the store and
\* each blob in the store is that of a File row.
QuiescentBlobIffRow ==
  Quiescent =>
    /\ \A id \in DOMAIN file : file[id].path \in blobs
    /\ \A p \in blobs : \E id \in DOMAIN file : file[id].path = p

----------------------------------------------------------------------------
(* The upload pipeline                                                     *)

\* C24: an upload for which compression was requested and the compressor
\* failed is not answered 500.
CompressionFailureNeverAborts ==
  [][\A size \in PipelineSizeInputs, mimeType \in PipelineMimeInputs,
        name \in NameInputs, data \in PipelineDataInputs :
       \A c \in compressFile(size, mimeType) :
         c.threw /\ UploadBegin("alice", size, mimeType, name, TRUE, c, data)
           => last'.status # 500
    ]_vars

\* C28: an upload whose size, MIME type or name as received fails
\* validation is answered 400 with the reason validateFile gives for what
\* was received, whatever the compressor makes of it.
ValidationOfReceived ==
  [][\A size \in PipelineSizeInputs, mimeType \in PipelineMimeInputs,
        name \in NameInputs, data \in PipelineDataInputs,
        compress \in BOOLEAN :
       \A c \in compressFile(size, mimeType) :
         /\ ~c.threw
         /\ UploadBegin("alice", size, mimeType, name, compress, c, data)
         /\ validateFile(size, mimeType, name) # ""
         => /\ last'.status = 400
            /\ last'.error = validateFile(size, mimeType, name)
    ]_vars

----------------------------------------------------------------------------
(* Access follows the shares of the moment                                 *)

\* A private share of the file for the user is in force in this state.
ShareInForceNow(u, id) ==
  \E s \in fileShare :
    /\ s.fileId = id /\ s.sharedWith = u
    /\ (s.expiresAt = None \/ s.expiresAt[1] > now)

\* C25: every view or download request by a user who does not own the file
\* is decided on the shares as they are when the request is made: with no
\* unexpired private share left (never granted, revoked by the owner,
\* removed by the recipient, or expired) the answer is 403, and with one in
\* force the view is served.
AccessFollowsShares ==
  [][\A u \in Users, id \in DOMAIN file :
       /\ last' # last
       /\ last'.op \in {"view", "download"}
       /\ last'.user = u /\ last'.file = id
       /\ file[id].userId # u
       => /\ last'.status = 403 <=> ~ShareInForceNow(u, id)
          /\ ShareInForceNow(u, id) /\ last'.op = "view"
               => last'.status = 200
    ]_vars

\* C25 witness: the only share ever made, alice's share of her file with
\* bob, is gone again, and bob's download has just been refused.
RevokedThenRefused ==
  /\ nextShare = 2 /\ fileShare = {}
  /\ last.op = "download" /\ last.user = "bob" /\ last.status = 403
  /\ last.file \in DOMAIN file /\ file[last.file].userId = "alice"

----------------------------------------------------------------------------
(* The quota check and the increment                                       *)

\* C26: the quota check of an upload reads the counter and reserves
\* nothing; the increment, a later step, adds the size to whatever the
\* counter is by then, beyond the quota if need be; and the statistics
\* report free = total - used, negative once used is above the quota.
QuotaCheckThenIncrement ==
  [][/\ \A k \in Slots :
          inflight[k] = Idle /\ inflight'[k].kind = "upload" =>
            /\ user' = user
            /\ inflight'[k].quotaCheck.success
            /\ inflight'[k].quotaCheck.used =
                 user[inflight'[k].user].usedStorage
     /\ \A k \in Slots :
          /\ inflight[k].kind = "upload" /\ inflight[k].pc = "charge"
          /\ inflight'[k] = Idle /\ last'.status = 201
          => user'[inflight[k].user].usedStorage =
               user[inflight[k].user].usedStorage + inflight[k].size
     /\ last' # last /\ last'.op = "stats" /\ last'.status = 200 =>
          LET u == user[last'.user]
              stats == last'.detail[1]
          IN /\ stats.used = u.usedStorage
             /\ stats.total = u.storageQuota
             /\ stats.free = u.storageQuota - u.usedStorage
             /\ u.usedStorage > u.storageQuota => stats.free < 0
    ]_vars

\* C26 witness: two uploads of 70 MiB by alice were both admitted, which
\* takes both checks reading the same counter, both were charged, no
\* update failed, and her statistics have just reported 40 MiB less than
\* nothing free.
BothAdmittedOverQuota ==
  /\ Cardinality({id \in DOMAIN file : file[id].userId = "alice"
                                          /\ file[id].size = 70 * MiB}) = 2
  /\ ~ledgerFault
  /\ user["alice"].usedStorage = 140 * MiB
  /\ user["alice"].usedStorage > user["alice"].storageQuota
  /\ last.op = "stats" /\ last.user = "alice" /\ last.status = 200
  /\ last.detail[1].free = -(40 * MiB)

====
